---------------------------- MODULE Spec2Model ----------------------------
(***************************************************************************)
(* Verification model of pychlorinator: the cipher transform, the poll     *)
(* variant session (chlorinator.py) and the notification variant session   *)
(* (halochlorinator.py).                                                   *)
(*                                                                         *)
(* Byte strings are sequences of integers 0..255.  A call that can raise   *)
(* is modelled by a result record [ok, val, err]: ok = TRUE carries the    *)
(* returned value in val, ok = FALSE carries the exception name in err.    *)
(***************************************************************************)
EXTENDS Integers, Sequences, FiniteSets, TLC

Ok(v)     == [ok |-> TRUE, val |-> v, err |-> ""]
Raise(e)  == [ok |-> FALSE, val |-> <<>>, err |-> e]

(* Op applied to the value of v, with v evaluated once. *)
Bind(v, Op(_)) == CHOOSE r \in { Op(x) : x \in {v} } : TRUE

(* A function on 1..n as a tuple: its n values, computed once. *)
Table(f, n) == SubSeq(f, 1, n)

Min(a, b) == IF a < b THEN a ELSE b
Max(a, b) == IF a > b THEN a ELSE b

(* Python slices b[:n] and b[n:], clamped to the length of b. *)
Take(b, n) == SubSeq(b, 1, Min(n, Len(b)))
Drop(b, n) == SubSeq(b, Min(n, Len(b)) + 1, Len(b))

(***************************************************************************)
(* Integer XOR of two bytes (the ^ of xor_bytes), through a nibble table.  *)
(***************************************************************************)
RECURSIVE BitXor(_, _, _)
BitXor(a, b, n) ==
    IF n = 0 THEN 0
    ELSE (((a % 2) + (b % 2)) % 2) + 2 * BitXor(a \div 2, b \div 2, n - 1)

Xor4 == [a \in 0..15 |-> [b \in 0..15 |-> BitXor(a, b, 4)]]

ByteXor(a, b) == 16 * Xor4[a \div 16][b \div 16] + Xor4[(a % 16)][(b % 16)]

(***************************************************************************)
(* AES-128 in ECB mode (FIPS-197), the cipher AES.new(SECRET_KEY,          *)
(* AES.MODE_ECB) of the source.  A block is 16 bytes in column order.      *)
(***************************************************************************)
SECRET_KEY ==
    << 43, 126, 21, 22, 40, 174, 210, 166, 171, 247, 21, 136, 9, 207, 79, 60 >>

Sbox ==
    << 99, 124, 119, 123, 242, 107, 111, 197, 48, 1, 103, 43, 254, 215, 171, 118,
       202, 130, 201, 125, 250, 89, 71, 240, 173, 212, 162, 175, 156, 164, 114, 192,
       183, 253, 147, 38, 54, 63, 247, 204, 52, 165, 229, 241, 113, 216, 49, 21,
       4, 199, 35, 195, 24, 150, 5, 154, 7, 18, 128, 226, 235, 39, 178, 117,
       9, 131, 44, 26, 27, 110, 90, 160, 82, 59, 214, 179, 41, 227, 47, 132,
       83, 209, 0, 237, 32, 252, 177, 91, 106, 203, 190, 57, 74, 76, 88, 207,
       208, 239, 170, 251, 67, 77, 51, 133, 69, 249, 2, 127, 80, 60, 159, 168,
       81, 163, 64, 143, 146, 157, 56, 245, 188, 182, 218, 33, 16, 255, 243, 210,
       205, 12, 19, 236, 95, 151, 68, 23, 196, 167, 126, 61, 100, 93, 25, 115,
       96, 129, 79, 220, 34, 42, 144, 136, 70, 238, 184, 20, 222, 94, 11, 219,
       224, 50, 58, 10, 73, 6, 36, 92, 194, 211, 172, 98, 145, 149, 228, 121,
       231, 200, 55, 109, 141, 213, 78, 169, 108, 86, 244, 234, 101, 122, 174, 8,
       186, 120, 37, 46, 28, 166, 180, 198, 232, 221, 116, 31, 75, 189, 139, 138,
       112, 62, 181, 102, 72, 3, 246, 14, 97, 53, 87, 185, 134, 193, 29, 158,
       225, 248, 152, 17, 105, 217, 142, 148, 155, 30, 135, 233, 206, 85, 40, 223,
       140, 161, 137, 13, 191, 230, 66, 104, 65, 153, 45, 15, 176, 84, 187, 22 >>

InvSbox == [y \in 0..255 |-> (CHOOSE x \in 1..256 : Sbox[x] = y) - 1]

Rcon == << 1, 2, 4, 8, 16, 32, 64, 128, 27, 54 >>

XTime(a) == IF a >= 128 THEN ByteXor((2 * a) % 256, 27) ELSE 2 * a

Xor3(a, b, c)    == ByteXor(ByteXor(a, b), c)
Xor4B(a, b, c, d) == ByteXor(ByteXor(a, b), ByteXor(c, d))

Mul2  == [a \in 0..255 |-> XTime(a)]
Mul3  == [a \in 0..255 |-> ByteXor(XTime(a), a)]
Mul4  == [a \in 0..255 |-> Mul2[Mul2[a]]]
Mul8  == [a \in 0..255 |-> Mul2[Mul4[a]]]
Mul9  == [a \in 0..255 |-> ByteXor(Mul8[a], a)]
Mul11 == [a \in 0..255 |-> Xor3(Mul8[a], Mul2[a], a)]
Mul13 == [a \in 0..255 |-> Xor3(Mul8[a], Mul4[a], a)]
Mul14 == [a \in 0..255 |-> Xor3(Mul8[a], Mul4[a], Mul2[a])]

(* Element-wise XOR of two equally long byte strings, as a tuple. *)
XorSeq(a, b) == SubSeq([i \in 1..Len(a) |-> ByteXor(a[i], b[i])], 1, Len(a))

(* Key schedule: 44 four-byte words, word i at KeyWords[i + 1]. *)
RECURSIVE ExpandKey(_)
ExpandKey(w) ==
    IF Len(w) = 44 THEN w
    ELSE LET i    == Len(w)
             prev == w[i]
             sub  == [k \in 1..4 |-> Sbox[prev[(k % 4) + 1] + 1]]
             t    == IF (i % 4) = 0
                     THEN [sub EXCEPT ![1] = ByteXor(@, Rcon[i \div 4])]
                     ELSE prev
             next == Table([k \in 1..4 |-> ByteXor(w[i - 3][k], t[k])], 4)
         IN  ExpandKey(Append(w, next))

KeyWords ==
    ExpandKey(<< SubSeq(SECRET_KEY, 1, 4), SubSeq(SECRET_KEY, 5, 8),
                 SubSeq(SECRET_KEY, 9, 12), SubSeq(SECRET_KEY, 13, 16) >>)

(* Round key r (0..10) at RoundKey[r + 1]. *)
RoundKey ==
    [r \in 1..11 |-> KeyWords[4 * r - 3] \o KeyWords[4 * r - 2]
                     \o KeyWords[4 * r - 1] \o KeyWords[4 * r]]

SubBytes(s)    == [i \in 1..16 |-> Sbox[s[i] + 1]]
InvSubBytes(s) == [i \in 1..16 |-> InvSbox[s[i]]]

(* Byte (row r, column c) is s[4c + r + 1]; row r rotates left by r. *)
ShiftRows(s) ==
    [i \in 1..16 |-> LET r == (i - 1) % 4
                         c == (i - 1) \div 4
                     IN  s[4 * ((c + r) % 4) + r + 1]]
InvShiftRows(s) ==
    [i \in 1..16 |-> LET r == (i - 1) % 4
                         c == (i - 1) \div 4
                     IN  s[4 * ((c + 4 - r) % 4) + r + 1]]

(* The column matrices are circulant: row r is the first row (2 3 1 1,     *)
(* inverse 14 11 13 9) rotated right by r - 1; Rot(r, k) is the index of   *)
(* the byte that meets entry k + 1 of the first row in row r.              *)
Rot(r, k) == ((r + k - 1) % 4) + 1

MixColumn(a) ==
    Table([r \in 1..4 |->
              Xor4B(Mul2[a[r]], Mul3[a[Rot(r, 1)]], a[Rot(r, 2)], a[Rot(r, 3)])],
          4)
InvMixColumn(a) ==
    Table([r \in 1..4 |->
              Xor4B(Mul14[a[r]], Mul11[a[Rot(r, 1)]], Mul13[a[Rot(r, 2)]],
                    Mul9[a[Rot(r, 3)]])], 4)

(* Column c (0..3) of a block is its bytes 4c + 1 .. 4c + 4. *)
MixColumns(s) ==
    Bind([c \in 0..3 |-> MixColumn(SubSeq(s, 4 * c + 1, 4 * c + 4))],
         LAMBDA col : col[0] \o col[1] \o col[2] \o col[3])
InvMixColumns(s) ==
    Bind([c \in 0..3 |-> InvMixColumn(SubSeq(s, 4 * c + 1, 4 * c + 4))],
         LAMBDA col : col[0] \o col[1] \o col[2] \o col[3])

(* Rounds r..10 on round state s.  The length test evaluates the round     *)
(* state before the next round is entered.                                 *)
RECURSIVE EncRounds(_, _)
EncRounds(s, r) ==
    IF Len(s) = 16 /\ r < 10
    THEN EncRounds(XorSeq(MixColumns(ShiftRows(SubBytes(s))), RoundKey[r + 1]),
                   r + 1)
    ELSE XorSeq(ShiftRows(SubBytes(s)), RoundKey[11])

RECURSIVE DecRounds(_, _)
DecRounds(s, r) ==
    IF Len(s) = 16 /\ r > 0
    THEN DecRounds(InvMixColumns(XorSeq(InvSubBytes(InvShiftRows(s)),
                                        RoundKey[r + 1])),
                   r - 1)
    ELSE XorSeq(InvSubBytes(InvShiftRows(s)), RoundKey[1])

AesEncryptBlock(b) == EncRounds(XorSeq(b, RoundKey[1]), 1)
AesDecryptBlock(b) == DecRounds(XorSeq(b, RoundKey[11]), 9)

RECURSIVE EcbBlocks(_, _)
EcbBlocks(d, enc) ==
    IF Len(d) = 0 THEN <<>>
    ELSE (IF enc THEN AesEncryptBlock(SubSeq(d, 1, 16))
                 ELSE AesDecryptBlock(SubSeq(d, 1, 16)))
         \o EcbBlocks(SubSeq(d, 17, Len(d)), enc)

(* cipher.encrypt / cipher.decrypt: ValueError unless whole blocks. *)
cipher_encrypt(d) ==
    IF (Len(d) % 16) # 0 THEN Raise("ValueError") ELSE Ok(EcbBlocks(d, TRUE))

(* A decrypt that drops a trailing partial block instead of raising. *)
cipher_decrypt_truncating(d) == Ok(EcbBlocks(Take(d, 16 * (Len(d) \div 16)), FALSE))

cipher_decrypt(d) ==
    IF (Len(d) % 16) # 0 THEN Raise("ValueError") ELSE Ok(EcbBlocks(d, FALSE))

(***************************************************************************)
(* The cipher transform of chlorinator.py / halochlorinator.py.            *)
(***************************************************************************)
(* bytes.ljust(n, b"\0") *)
ljust(b, n) == b \o [i \in 1..Max(0, n - Len(b)) |-> 0]

(* An XOR that stops at the end of the shorter operand (zip, no padding). *)
xor_bytes_zip_shortest(array1, array2) ==
    LET n == Min(Len(array1), Len(array2))
    IN  XorSeq(Take(array1, n), Take(array2, n))

xor_bytes(array1, array2) ==
    LET shrt == IF Len(array1) <= Len(array2) THEN array1 ELSE array2
        lng  == IF Len(array1) <= Len(array2) THEN array2 ELSE array1
    IN  XorSeq(ljust(shrt, Len(lng)), lng)

encrypt_mac_key(session_key, access_code) ==
    cipher_encrypt(xor_bytes(session_key, access_code))

encrypt_characteristic(data, session_key) ==
    Bind(xor_bytes(data, session_key), LAMBDA xored :
    Bind(cipher_encrypt(Take(xored, 16)), LAMBDA first :
        IF ~first.ok THEN first
        ELSE Bind(first.val \o Drop(xored, 16), LAMBDA array :
             Bind(cipher_encrypt(Drop(array, 4)), LAMBDA second :
                 IF ~second.ok THEN second
                 ELSE Ok(Take(array, 4) \o second.val)))))

(* A decrypt that undoes the two cipher passes in the wrong order. *)
decrypt_characteristic_swapped(data, session_key) ==
    Bind(cipher_decrypt(Take(data, 16)), LAMBDA first :
        IF ~first.ok THEN first
        ELSE Bind(first.val \o Drop(data, 16), LAMBDA array :
             Bind(cipher_decrypt(Drop(array, 4)), LAMBDA second :
                 IF ~second.ok THEN second
                 ELSE Ok(xor_bytes(Take(array, 4) \o second.val, session_key)))))

decrypt_characteristic(data, session_key) ==
    Bind(cipher_decrypt(Drop(data, 4)), LAMBDA first :
        IF ~first.ok THEN first
        ELSE Bind(Take(data, 4) \o first.val, LAMBDA array :
             Bind(cipher_decrypt(Take(array, 16)), LAMBDA second :
                 IF ~second.ok THEN second
                 ELSE Ok(xor_bytes(second.val \o Drop(array, 16), session_key)))))

(* pad_byte_array: zero bytes appended up to target_length. *)
pad_byte_array(byte_array, target_length) ==
    byte_array \o [i \in 1..Max(0, target_length - Len(byte_array)) |-> 0]

(***************************************************************************)
(* Record codecs of the notification variant (halo_parsers.py).            *)
(*                                                                         *)
(* A decoded value is [type, value]: an int, a quotient x / 10 kept by its *)
(* numerator x, or a member of an Enum / IntFlag class kept by its code.   *)
(* vars(record) is a function from attribute names to decoded values.      *)
(***************************************************************************)
PyInt(n)        == [type |-> "int", value |-> n]
TrueDiv10(n)    == [type |-> "float/10", value |-> n]
FlagValue(c, n) == [type |-> c, value |-> n]

(* Enum(code): ValueError when the code is not a member. *)
EnumValue(c, members, n) ==
    IF n \in members THEN Ok([type |-> c, value |-> n]) ELSE Raise("ValueError")

(* Python slice b[lo:hi] of a byte string, clamped to its length. *)
Slice(b, lo, hi) == SubSeq(b, Min(lo, Len(b)) + 1, Min(hi, Len(b)))

(* A byte order that reads the most significant byte first. *)
RECURSIVE from_bytes_big(_)
from_bytes_big(b) ==
    IF Len(b) = 0 THEN 0
    ELSE b[Len(b)] + 256 * from_bytes_big(SubSeq(b, 1, Len(b) - 1))

(* int.from_bytes(b, byteorder="little") *)
RECURSIVE from_bytes_little(_)
from_bytes_little(b) ==
    IF Len(b) = 0 THEN 0
    ELSE b[1] + 256 * from_bytes_little(Tail(b))

(* struct formats with the "<" prefix: standard sizes, no padding. *)
FieldSize(code) ==
    CASE code = "B" -> 1
      [] code = "H" -> 2
      [] code = "I" -> 4
      [] code = "2s" -> 2
      [] code = "4s" -> 4

RECURSIVE calcsize(_)
calcsize(fmt) ==
    IF Len(fmt) = 0 THEN 0 ELSE FieldSize(Head(fmt)) + calcsize(Tail(fmt))

RECURSIVE unpack_fields(_, _)
unpack_fields(fmt, buffer) ==
    IF Len(fmt) = 0 THEN << >>
    ELSE << IF Head(fmt) \in {"2s", "4s"} THEN Take(buffer, FieldSize(Head(fmt)))
            ELSE from_bytes_little(Take(buffer, FieldSize(Head(fmt)))) >>
         \o unpack_fields(Tail(fmt), Drop(buffer, FieldSize(Head(fmt))))

(* An unpack that reads a short buffer as if zero bytes followed it. *)
struct_unpack_zero_filled(fmt, buffer) ==
    Ok(unpack_fields(fmt, pad_byte_array(buffer, calcsize(fmt))))

(* struct.unpack: struct.error unless the buffer has exactly calcsize bytes. *)
struct_unpack(fmt, buffer) ==
    IF Len(buffer) # calcsize(fmt) THEN Raise("struct.error")
    ELSE Ok(unpack_fields(fmt, buffer))

TempCharacteristic_fmt == << "B", "B", "H", "H", "H", "H", "B", "H", "H", "B" >>
TempValidEnum          == {0, 1, 2}

TempCharacteristic(data) ==
    LET u == struct_unpack(TempCharacteristic_fmt,
                           Take(data, calcsize(TempCharacteristic_fmt)))
    IN  IF ~u.ok THEN u
        ELSE LET valid == EnumValue("TempValidEnum", TempValidEnum, u.val[7])
             IN  IF ~valid.ok THEN valid
                 ELSE Ok([IsFahrenheit   |-> PyInt(u.val[1]),
                          TempSupports   |-> FlagValue("TempSupportsValues", u.val[2]),
                          BoardTemp      |-> TrueDiv10(u.val[3]),
                          WaterTemp      |-> TrueDiv10(u.val[4]),
                          ChloroWater    |-> TrueDiv10(u.val[5]),
                          SolarWater     |-> TrueDiv10(u.val[6]),
                          WaterTempValid |-> valid.val,
                          SolarRoof      |-> TrueDiv10(u.val[8]),
                          Heater         |-> TrueDiv10(u.val[9]),
                          TempDisplayed  |-> FlagValue("TempDisplayedValues", u.val[10])])

ProbeCharacteristic_fmt == << "B", "B", "H", "H" >>

ProbeCharacteristic(data) ==
    LET u == struct_unpack(ProbeCharacteristic_fmt,
                           Take(data, calcsize(ProbeCharacteristic_fmt)))
    IN  IF ~u.ok THEN u
        ELSE Ok([HighestPhMeasured  |-> TrueDiv10(u.val[1]),
                 LowestPhMeasured   |-> TrueDiv10(u.val[2]),
                 HighestOrpMeasured |-> PyInt(u.val[3]),
                 LowestOrpMeasured  |-> PyInt(u.val[4])])

(***************************************************************************)
(* The record parsers of the poll variant (chlorinator_parsers.py).        *)
(***************************************************************************)
PyBool(b)  == [type |-> "bool", value |-> IF b THEN 1 ELSE 0]
PyBytes(b) == [type |-> "bytes", value |-> b]
PyList(l)  == [type |-> "list", value |-> l]

(* datetime.timedelta(hours=h, minutes=m), normalised as Python keeps it:  *)
(* << days, seconds >> with 0 <= seconds < 86400.                          *)
timedelta(hours, minutes) ==
    LET whole_hours == hours + (minutes \div 60)
    IN  [type  |-> "timedelta",
         value |-> << whole_hours \div 24,
                      3600 * (whole_hours % 24) + 60 * (minutes % 60) >>]

(* a > b and a >= b of two timedelta values. *)
timedelta_gt(a, b) ==
    \/ a.value[1] > b.value[1]
    \/ a.value[1] = b.value[1] /\ a.value[2] > b.value[2]
timedelta_ge(a, b) == a = b \/ timedelta_gt(a, b)

(* The & of two non-negative integers. *)
RECURSIVE BitAnd(_, _)
BitAnd(a, b) ==
    IF a = 0 \/ b = 0 THEN 0
    ELSE ((a % 2) * (b % 2)) + 2 * BitAnd(a \div 2, b \div 2)

(* struct formats with the "@" prefix: native sizes, every field aligned   *)
(* to its own size, little-endian on the supported platforms.              *)
NativeSize(code) ==
    CASE code = "B"  -> 1
      [] code = "H"  -> 2
      [] code = "I"  -> 4
      [] code = "3s" -> 3

NativeAlign(code) == IF code = "3s" THEN 1 ELSE NativeSize(code)

AlignUp(offset, a) == ((offset + a - 1) \div a) * a

RECURSIVE native_end(_, _)
native_end(fmt, offset) ==
    IF Len(fmt) = 0 THEN offset
    ELSE native_end(Tail(fmt),
                    AlignUp(offset, NativeAlign(Head(fmt))) + NativeSize(Head(fmt)))

calcsize_native(fmt) == native_end(fmt, 0)

RECURSIVE unpack_native_from(_, _, _)
unpack_native_from(fmt, buffer, offset) ==
    IF Len(fmt) = 0 THEN << >>
    ELSE LET start == AlignUp(offset, NativeAlign(Head(fmt)))
             stop  == start + NativeSize(Head(fmt))
             raw   == SubSeq(buffer, start + 1, stop)
         IN  << IF Head(fmt) = "3s" THEN raw ELSE from_bytes_little(raw) >>
             \o unpack_native_from(Tail(fmt), buffer, stop)

(* struct.unpack: struct.error unless the buffer has exactly calcsize bytes. *)
struct_unpack_native(fmt, buffer) ==
    IF Len(buffer) # calcsize_native(fmt) THEN Raise("struct.error")
    ELSE Ok(unpack_native_from(fmt, buffer, 0))

Modes                     == {0, 1, 2}
SpeedLevels               == {0, 1, 2, 3, -1}
InfoMessages              == (0..8) \cup (128..132)
ChlorineControlStatuses   == (-1)..7
PhControlTypes            == {0, 1, 2}
ChlorineControlTypes      == {0, 1, 2}
AcidDosingInhibitStatuses == {0, 1, 2}

ChlorinatorSetup_fmt == << "B", "B", "H", "B" >>

ChlorinatorSetup(data_bytes) ==
    LET u == struct_unpack_native(ChlorinatorSetup_fmt,
                 Take(data_bytes, calcsize_native(ChlorinatorSetup_fmt)))
    IN  IF ~u.ok THEN u
        ELSE LET speed == EnumValue("SpeedLevels", SpeedLevels, u.val[1])
             IN  IF ~speed.ok THEN speed
                 ELSE Ok([default_manual_on_speed   |-> speed.val,
                          ph_control_setpoint       |-> TrueDiv10(u.val[2]),
                          chlorine_control_setpoint |-> PyInt(u.val[3]),
                          flags                     |-> PyInt(u.val[4]),
                          is_no_timer_model |-> PyBool(BitAnd(1, u.val[4]) # 0),
                          is_timer_master_present_in_system |->
                              PyBool(BitAnd(2, u.val[4]) # 0)])

(* A StateFlags with the masks of PumpIsPriming and CellIsOperating exchanged. *)
StateFlags_priming_is_32 ==
    [ChemistryValuesCurrent |-> 1, ChemsitryValuesValid |-> 2, SpaSelection |-> 4,
     PumpIsPriming |-> 32, PumpIsOperating |-> 16, CellIsOperating |-> 8,
     UserSettingsHasChanged |-> 64, SanitisingUntilNextTimerTomorrow |-> 128]

(* class StateFlags(IntFlag), lines 99-109. *)
StateFlags ==
    [ChemistryValuesCurrent |-> 1, ChemsitryValuesValid |-> 2, SpaSelection |-> 4,
     PumpIsPriming |-> 8, PumpIsOperating |-> 16, CellIsOperating |-> 32,
     UserSettingsHasChanged |-> 64, SanitisingUntilNextTimerTomorrow |-> 128]

ChlorinatorState_fmt == << "B", "B", "B", "B", "B", "B", "B", "B", "B", "B", "B" >>

ChlorinatorState(data_bytes) ==
    LET u == struct_unpack_native(ChlorinatorState_fmt,
                 Take(data_bytes, calcsize_native(ChlorinatorState_fmt)))
    IN  IF ~u.ok THEN u
        ELSE LET mode   == EnumValue("Modes", Modes, u.val[1])
                 speed  == EnumValue("SpeedLevels", SpeedLevels, u.val[2])
                 info   == EnumValue("InfoMessages", InfoMessages, u.val[4])
                 status == EnumValue("ChlorineControlStatuses",
                                     ChlorineControlStatuses, u.val[8])
                 flags  == u.val[6]
             IN  IF ~mode.ok THEN mode
                 ELSE IF ~speed.ok THEN speed
                 ELSE IF ~info.ok THEN info
                 ELSE IF ~status.ok THEN status
                 ELSE Ok(("_reserved" :> PyInt(u.val[5])) @@
                         [mode                     |-> mode.val,
                          pump_speed               |-> speed.val,
                          active_timer             |-> PyInt(u.val[3]),
                          info_message             |-> info.val,
                          flags                    |-> PyInt(flags),
                          ph_measurement           |-> TrueDiv10(u.val[7]),
                          chlorine_control_status  |-> status.val,
                          time_hours               |-> PyInt(u.val[9]),
                          time_minutes             |-> PyInt(u.val[10]),
                          time_seconds             |-> PyInt(u.val[11]),
                          chemistry_values_current |->
                              PyBool(BitAnd(StateFlags.ChemistryValuesCurrent, flags) # 0),
                          chemistry_values_valid   |->
                              PyBool(BitAnd(StateFlags.ChemsitryValuesValid, flags) # 0),
                          spa_selection            |->
                              PyBool(BitAnd(StateFlags.SpaSelection, flags) # 0),
                          pump_is_priming          |->
                              PyBool(BitAnd(StateFlags.PumpIsPriming, flags) # 0),
                          pump_is_operating        |->
                              PyBool(BitAnd(StateFlags.PumpIsOperating, flags) # 0),
                          cell_is_operating        |->
                              PyBool(BitAnd(StateFlags.CellIsOperating, flags) # 0),
                          user_settings_has_changed |->
                              PyBool(BitAnd(StateFlags.UserSettingsHasChanged, flags) # 0),
                          sanitising_until_next_timer_tomorrow |->
                              PyBool(BitAnd(StateFlags.SanitisingUntilNextTimerTomorrow, flags)
                                     # 0)])

ChlorinatorCapabilities_fmt ==
    << "B", "B", "B", "B", "B", "B", "B", "B", "B", "B", "B", "B", "B", "B", "B",
       "3s", "H" >>

(* Lines 326-332: the attribute volume_units is assigned on two of the     *)
(* three paths of the test of the volume-unit bits.                        *)
volume_units(flags) ==
    IF BitAnd(12, flags) # 0
    THEN IF BitAnd(4, flags) # 0
         THEN "volume_units" :> [type |-> "VolumeUnitsTypes", value |-> 1]
         ELSE << >>
    ELSE "volume_units" :> [type |-> "VolumeUnitsTypes", value |-> 0]

ChlorinatorCapabilities(data_bytes) ==
    LET u == struct_unpack_native(ChlorinatorCapabilities_fmt,
                 Take(data_bytes, calcsize_native(ChlorinatorCapabilities_fmt)))
    IN  IF ~u.ok THEN u
        ELSE LET ph    == EnumValue("PhControlTypes", PhControlTypes, u.val[9])
                 chl   == EnumValue("ChlorineControlTypes", ChlorineControlTypes,
                                    u.val[10])
                 flags == u.val[11]
             IN  IF ~ph.ok THEN ph
                 ELSE IF ~chl.ok THEN chl
                 ELSE Ok(volume_units(flags) @@
                         [minimum_manual_acid_setpoint     |-> PyInt(u.val[1]),
                          maximum_manual_acid_setpoint     |-> PyInt(u.val[2]),
                          minimum_manual_chlorine_setpoint |-> PyInt(u.val[3]),
                          maximum_manual_chlorine_setpoint |-> PyInt(u.val[4]),
                          minimum_ph_setpoint   |-> TrueDiv10(u.val[5]),
                          maximum_ph_setpoint   |-> TrueDiv10(u.val[6]),
                          minimum_orp_setpoint  |-> PyInt(u.val[7] * 10),
                          maximum_orp_setpoint  |-> PyInt(u.val[8] * 10),
                          ph_control_type       |-> ph.val,
                          chlorine_control_type |-> chl.val,
                          flags                 |-> PyInt(flags),
                          cell_size             |-> PyInt(u.val[12]),
                          acid_pump_size        |-> PyInt(u.val[13]),
                          filter_pump_size      |-> TrueDiv10(u.val[14]),
                          reversal_period       |-> PyInt(u.val[15]),
                          pool_volume           |-> PyBytes(u.val[16]),
                          spa_volume            |-> PyInt(u.val[17]),
                          threespeed_pump_enabled |-> PyBool(BitAnd(1, flags) # 0),
                          ai_mode_enabled       |-> PyBool(BitAnd(2, flags) # 0),
                          lighting_enabled      |-> PyBool(BitAnd(16, flags) # 0),
                          dosing_capable_unit   |-> PyBool(BitAnd(32, flags) # 0)])

ChlorinatorSettings_fmt == << "H", "B" >>

ChlorinatorSettings(data_bytes) ==
    LET u == struct_unpack_native(ChlorinatorSettings_fmt,
                 Take(data_bytes, calcsize_native(ChlorinatorSettings_fmt)))
    IN  IF ~u.ok THEN u
        ELSE LET status == EnumValue("AcidDosingInhibitStatuses",
                                     AcidDosingInhibitStatuses, u.val[2])
             IN  IF ~status.ok THEN status
                 ELSE Ok([acid_dosing_inhibit_time_remaining |-> PyInt(u.val[1]),
                          acid_dosing_inhibit_status         |-> status.val])

ChlorinatorStatistics_fmt == << "B", "B", "H", "H", "H", "I", "I", "B" >>

ChlorinatorStatistics(data_bytes) ==
    LET u == struct_unpack_native(ChlorinatorStatistics_fmt,
                 Take(data_bytes, calcsize_native(ChlorinatorStatistics_fmt)))
    IN  IF ~u.ok THEN u
        ELSE Ok([highest_ph_measured        |-> TrueDiv10(u.val[1]),
                 lowest_ph_measured         |-> TrueDiv10(u.val[2]),
                 highest_orp_measured       |-> PyInt(u.val[3]),
                 lowest_orp_measured        |-> PyInt(u.val[4]),
                 cell_reversal_count        |-> PyInt(u.val[5]),
                 cell_running_time          |-> timedelta(u.val[6], 0),
                 low_salt_cell_running_time |-> timedelta(u.val[7], 0),
                 previous_days_cell_load    |-> PyInt(u.val[8])])

NUMBER_OF_PUMP_TIMERS_SUPPORTED == 4

ChlorinatorTimers_fmt == << "B", "B", "B", "B" >>

(* One PumpTimer, lines 396-407. *)
PumpTimer(fields) ==
    [enabled     |-> PyBool(BitAnd(32, fields[1]) # 0),
     start_time  |-> timedelta(BitAnd(31, fields[1]), fields[2]),
     stop_time   |-> timedelta(fields[3], fields[4]),
     speed_level |-> [type |-> "SpeedLevels", value |-> BitAnd(192, fields[1]) \div 64]]

(* A PumpTimer() whose attributes a caller has assigned, lines 186-189. *)
PumpTimerWith(enabled, start_minutes, stop_minutes, speed_level) ==
    [enabled     |-> PyBool(enabled),
     start_time  |-> timedelta(0, start_minutes),
     stop_time   |-> timedelta(0, stop_minutes),
     speed_level |-> [type |-> "SpeedLevels", value |-> speed_level]]

NotSet == -1
OneDay == timedelta(24, 0)

(* An is_invalid without the test against one day. *)
is_invalid_no_day_check(timer) ==
    IF timer.enabled.value = 0 THEN FALSE
    ELSE IF timedelta_ge(timer.start_time, timer.stop_time) THEN TRUE
    ELSE IF timer.speed_level.value = NotSet THEN TRUE
    ELSE FALSE

(* PumpTimer.is_invalid, lines 191-203. *)
is_invalid(timer) ==
    IF timer.enabled.value = 0 THEN FALSE
    ELSE IF \/ timedelta_gt(timer.start_time, OneDay)
            \/ timedelta_gt(timer.stop_time, OneDay) THEN TRUE
    ELSE IF timedelta_ge(timer.start_time, timer.stop_time) THEN TRUE
    ELSE IF timer.speed_level.value = NotSet THEN TRUE
    ELSE FALSE

(* A timers decoder that advances by three bytes from one timer to the next. *)
ChlorinatorTimers_stride_3(data_bytes) ==
    LET unpacked == [i \in 1..NUMBER_OF_PUMP_TIMERS_SUPPORTED |->
                        struct_unpack_native(ChlorinatorTimers_fmt,
                            Slice(data_bytes, (i - 1) * 3, (i - 1) * 3 + 4))]
    IN  IF \E i \in 1..NUMBER_OF_PUMP_TIMERS_SUPPORTED : ~unpacked[i].ok
        THEN Raise("struct.error")
        ELSE Ok([pump_timers |->
                    PyList([i \in 1..NUMBER_OF_PUMP_TIMERS_SUPPORTED |->
                               PumpTimer(unpacked[i].val)])])

(* ChlorinatorTimers.__init__, lines 388-408. *)
ChlorinatorTimers(data_bytes) ==
    LET fmt_size == calcsize_native(ChlorinatorTimers_fmt)
        unpacked == [i \in 1..NUMBER_OF_PUMP_TIMERS_SUPPORTED |->
                        struct_unpack_native(ChlorinatorTimers_fmt,
                            Slice(data_bytes, (i - 1) * fmt_size,
                                  (i - 1) * fmt_size + fmt_size))]
    IN  IF \E i \in 1..NUMBER_OF_PUMP_TIMERS_SUPPORTED : ~unpacked[i].ok
        THEN Raise("struct.error")
        ELSE Ok([pump_timers |->
                    PyList([i \in 1..NUMBER_OF_PUMP_TIMERS_SUPPORTED |->
                               PumpTimer(unpacked[i].val)])])

(***************************************************************************)
(* LightStateCharacteristic of halo_parsers.py: four zone modes, four zone *)
(* colours and the zone-state flag byte.                                   *)
(***************************************************************************)
LightStateCharacteristic_fmt == << "4s", "4s", "B" >>
Mode                         == {0, 1, 2}

(* The masks of lines 810-813 for LightingState_1 .. LightingState_4. *)
LightingStateMasks == << 0, 1, 2, 3 >>

(* self.ZoneStateFlagsValues(self.ZoneStateFlags & mask) for a zone. *)
LightingState(zone, ZoneStateFlags) ==
    FlagValue("ZoneStateFlagsValues", BitAnd(ZoneStateFlags, LightingStateMasks[zone]))

LightStateCharacteristic(data) ==
    LET u == struct_unpack(LightStateCharacteristic_fmt,
                           Take(data, calcsize(LightStateCharacteristic_fmt)))
    IN  IF ~u.ok THEN u
        ELSE IF \E zone \in 1..4 : u.val[1][zone] \notin Mode
        THEN Raise("ValueError")
        ELSE Ok([ZoneModes        |-> PyBytes(u.val[1]),
                 ZoneColours      |-> PyBytes(u.val[2]),
                 ZoneStateFlags   |-> PyInt(u.val[3]),
                 LightingMode_1   |-> [type |-> "Mode", value |-> u.val[1][1]],
                 LightingMode_2   |-> [type |-> "Mode", value |-> u.val[1][2]],
                 LightingMode_3   |-> [type |-> "Mode", value |-> u.val[1][3]],
                 LightingMode_4   |-> [type |-> "Mode", value |-> u.val[1][4]],
                 LightingState_1  |-> LightingState(1, u.val[3]),
                 LightingState_2  |-> LightingState(2, u.val[3]),
                 LightingState_3  |-> LightingState(3, u.val[3]),
                 LightingState_4  |-> LightingState(4, u.val[3]),
                 LightingColour_1 |-> PyInt(u.val[2][1]),
                 LightingColour_2 |-> PyInt(u.val[2][2]),
                 LightingColour_3 |-> PyInt(u.val[2][3]),
                 LightingColour_4 |-> PyInt(u.val[2][4])])

(***************************************************************************)
(* GPOSetupCharacteristic of halo_parsers.py: the setup of one outlet,     *)
(* stored in attributes whose names carry the number of the outlet.        *)
(***************************************************************************)
GPOSetupCharacteristic_fmt == << "B", "B", "B", "B", "B", "B", "B" >>

(* FilterPump = 0 .. Connect1 = 7, Connect2 = 8 *)
GPODeviceTypeValues == 0..8
GPOFunctionValues   == 0..3
GPONameValues       == 0..8

(* Lines 1265-1271: the device type is compared with the codes of Connect1 *)
(* and Connect2 and is never converted to a GPODeviceTypeValues member.     *)
get_base_attr_number(device_type, index) ==
    IF device_type = 7 THEN 1 + index
    ELSE IF device_type = 8 THEN 3 + index
    ELSE 0

(* f"GPO{base_attr_number}_{suffix}" *)
GPOAttr(base_attr_number, suffix) == "GPO" \o ToString(base_attr_number) \o suffix

GPOSetupCharacteristic(data) ==
    LET u == struct_unpack(GPOSetupCharacteristic_fmt,
                           Take(data, calcsize(GPOSetupCharacteristic_fmt)))
    IN  IF ~u.ok THEN u
        ELSE LET gpo_function == EnumValue("GPOFunctionValues", GPOFunctionValues, u.val[4])
                 gpo_name     == EnumValue("GPONameValues", GPONameValues, u.val[5])
                 base_attr_number == get_base_attr_number(u.val[1], u.val[2])
             IN  IF ~gpo_function.ok THEN gpo_function
                 ELSE IF ~gpo_name.ok THEN gpo_name
                 ELSE Ok(("Index" :> PyInt(u.val[2]))
                         @@ (GPOAttr(base_attr_number, "_OutletEnabled") :> PyInt(u.val[3]))
                         @@ (GPOAttr(base_attr_number, "_Function") :> gpo_function.val)
                         @@ (GPOAttr(base_attr_number, "_Name") :> gpo_name.val)
                         @@ (GPOAttr(base_attr_number, "_LightingZone") :> PyInt(u.val[6]))
                         @@ (GPOAttr(base_attr_number, "_UseTimers") :> PyInt(u.val[7])))

(***************************************************************************)
(* The classes of the codec registry of halochlorinator.py.                *)
(***************************************************************************)
(* The struct format of each class of the registry, "<": no padding. *)
layout(class) ==
    CASE class = "DeviceProfileCharacteristic2" ->
           << "B", "B", "B", "B", "B", "B", "B", "B", "B", "I" >>
      [] class = "TempCharacteristic" ->
           << "B", "B", "H", "H", "H", "H", "B", "H", "H", "B" >>
      [] class = "SettingsCharacteristic2" ->
           << "H", "B", "B", "B", "B", "B", "B" >>
      [] class = "WaterVolumeCharacteristic" ->
           << "B", "I", "H", "I", "H", "B" >>
      [] class = "SetPointCharacteristic" ->
           << "B", "H", "B", "B", "B" >>
      [] class = "StateCharacteristic3" ->
           << "B", "B", "H", "B", "B", "H", "B", "B", "B", "2s", "H", "B" >>
      [] class = "CapabilitiesCharacteristic2" ->
           << "B", "B" >>
      [] class = "MaintenanceStateCharacteristic" ->
           << "B", "H", "B", "B", "I", "H", "B", "B" >>
      [] class = "EquipmentModeCharacteristic" ->
           << "B", "B", "B", "B", "B", "B", "B", "B", "B", "B", "B", "B", "H", "H" >>
      [] class = "EquipmentParameterCharacteristic" ->
           << "B", "B", "B", "B", "B", "B", "B", "B", "B", "B", "B" >>
      [] class = "LightStateCharacteristic" ->
           << "4s", "4s", "B" >>
      [] class = "LightCapabilitiesCharacteristic" ->
           << "B", "B", "B", "B", "B" >>
      [] class = "LightSetupCharacteristic" ->
           << "4s" >>
      [] class = "ProbeCharacteristic" ->
           << "B", "B", "H", "H" >>
      [] class = "CellCharacteristic2" ->
           << "H", "I", "I", "B", "H", "H" >>
      [] class = "PowerBoardCharacteristic" ->
           << "I" >>
      [] class = "HeaterCapabilitiesCharacteristic" ->
           << "B", "B", "B", "B", "B" >>
      [] class = "HeaterConfigCharacteristic" ->
           << "B", "B" >>
      [] class = "HeaterStateCharacteristic" ->
           << "B", "B", "B", "B", "B", "B", "B", "B", "B", "H", "B" >>
      [] class = "HeaterCooldownStateCharacteristic" ->
           << "B", "B", "B", "B", "H", "H" >>
      [] class = "SolarCapabilitiesCharacteristic" ->
           << "B" >>
      [] class = "SolarConfigCharacteristic" ->
           << "B", "B", "B", "B", "B", "B", "B", "H", "B" >>
      [] class = "SolarStateCharacteristic" ->
           << "H", "H", "H", "B", "B", "B", "B", "B", "H", "B" >>
      [] class = "GPOSetupCharacteristic" ->
           << "B", "B", "B", "B", "B", "B", "B" >>
      [] class = "RelaySetupCharacteristic" ->
           << "B", "B", "B", "B", "B" >>
      [] class = "ValveSetupCharacteristic" ->
           << "B", "B", "B", "B" >>


(***************************************************************************)
(* The constructors of the registry classes that are not modelled          *)
(* attribute by attribute, after their unpack: the conversions of unpacked *)
(* codes to members of an Enum or IntEnum, each of which raises ValueError *)
(* on a code that is not a value of a member.  A conversion to an IntFlag  *)
(* accepts every code, and nothing else in these constructors raises.      *)
(***************************************************************************)
(* GPOMode: Off, Auto, On, NotEnabled. *)
GPOMode == {0, 1, 2, 255}

(* StateCharacteristic3.SubText4Values *)
SubText4Values ==
    (0..12) \cup (50..52) \cup (100..104) \cup (150..158) \cup (200..207)
       \cup (300..319) \cup {400, 401, 500, 501} \cup (600..603) \cup (700..703)
       \cup (705..710) \cup (900..902) \cup {1400, 65535}

(* Every enum conversion of the constructor of class accepts its code; v   *)
(* is the tuple struct.unpack has returned.                                *)
enum_conversions(class, v) ==
    CASE class = "DeviceProfileCharacteristic2" ->
             /\ v[1] \in {-1, 0, 1, 2, 3, 4, 129}       \* DeviceType
             /\ v[3] \in (-1)..2                        \* DeviceProtocol
      [] class = "SettingsCharacteristic2" ->
             v[2] \in 0..3                              \* CellModelValues
      [] class = "StateCharacteristic3" ->
             /\ v[4] \in (-1)..19                       \* MainTextValues
             /\ v[5] \in 0..12                          \* SubText1Values
             /\ v[7] \in 0..12                          \* SubText2Values
             /\ v[9] \in 0..8                           \* SubText3Values
             /\ v[11] \in SubText4Values
      [] class = "WaterVolumeCharacteristic" ->
             v[1] \in {0, 1, 2}                         \* VolumeUnitsValues
      [] class = "CapabilitiesCharacteristic2" ->
             /\ v[1] \in {0, 1, 2}                      \* PhControlTypes
             /\ v[2] \in {0, 1, 2}                      \* ChlorineControlTypes
      [] class = "EquipmentModeCharacteristic" ->
             /\ v[2] \in Mode
             /\ \A i \in 3..12 : v[i] \in GPOMode
      [] class = "LightSetupCharacteristic" ->
             \A i \in 1..4 : v[1][i] \in 0..7           \* ZoneNamesValues
      [] class = "MaintenanceStateCharacteristic" ->
             /\ v[3] \in (-1)..10                       \* TaskStatesValues
             /\ v[4] \in 0..5                           \* TaskReturnCodesValues
             /\ v[7] \in 0..14                          \* CalibrateStatesValues
             /\ v[8] \in Mode
      [] class = "HeaterConfigCharacteristic" ->
             v[2] \in (-1)..3                           \* SpeedLevels
      [] class = "HeaterStateCharacteristic" ->
             /\ v[3] \in {0, 1}                         \* HeaterModeValues
             /\ v[2] \in Mode
             /\ v[5] \in {0, 1, 2}                      \* HeatpumpModeValues
             /\ v[6] \in {0, 1, 2}                      \* HeaterForcedEnum
             /\ v[9] \in {0, 1, 2}                      \* TempValidEnum
      [] class = "EquipmentParameterCharacteristic" ->
             v[1] \in (-1)..3                           \* SpeedLevels
      [] class = "SolarStateCharacteristic" ->
             /\ v[5] \in Mode
             /\ v[7] \in {0, 1, 2}                      \* TempValidEnum
             /\ v[8] \in {0, 1, 2}                      \* TempValidEnum
             /\ v[10] \in 0..6                          \* SolarMessageValues
      [] class = "RelaySetupCharacteristic" ->
             v[3] \in {0, 1}                            \* RelayNameValue
      [] class = "ValveSetupCharacteristic" ->
             v[3] \in 0..5                              \* ValveNameValue
      [] OTHER -> TRUE

(* An unpack of the whole of data, without the slice. *)
record_fields_unsliced(class, data) == struct_unpack(layout(class), data)

(* The first statement of every constructor of the registry, the only one  *)
(* that reads data: struct.unpack(fmt, data[: struct.calcsize(fmt)]).      *)
record_fields(class, data) ==
    struct_unpack(layout(class), Take(data, calcsize(layout(class))))

(***************************************************************************)
(* The notification callback of HaloChlorinatorAPI.async_gatherdata.       *)
(***************************************************************************)
(* The codec registry: command tag -> record class. *)
characteristics ==
    1 :> "DeviceProfileCharacteristic2" @@ 9 :> "TempCharacteristic"
    @@ 100 :> "SettingsCharacteristic2" @@ 101 :> "WaterVolumeCharacteristic"
    @@ 102 :> "SetPointCharacteristic" @@ 104 :> "StateCharacteristic3"
    @@ 105 :> "CapabilitiesCharacteristic2"
    @@ 106 :> "MaintenanceStateCharacteristic"
    @@ 201 :> "EquipmentModeCharacteristic"
    @@ 202 :> "EquipmentParameterCharacteristic"
    @@ 300 :> "LightStateCharacteristic"
    @@ 301 :> "LightCapabilitiesCharacteristic"
    @@ 302 :> "LightSetupCharacteristic" @@ 600 :> "ProbeCharacteristic"
    @@ 601 :> "CellCharacteristic2" @@ 602 :> "PowerBoardCharacteristic"
    @@ 1100 :> "HeaterCapabilitiesCharacteristic"
    @@ 1101 :> "HeaterConfigCharacteristic"
    @@ 1102 :> "HeaterStateCharacteristic"
    @@ 1104 :> "HeaterCooldownStateCharacteristic"
    @@ 1200 :> "SolarCapabilitiesCharacteristic"
    @@ 1201 :> "SolarConfigCharacteristic" @@ 1202 :> "SolarStateCharacteristic"
    @@ 1300 :> "GPOSetupCharacteristic" @@ 1301 :> "RelaySetupCharacteristic"
    @@ 1302 :> "ValveSetupCharacteristic"

(* characteristic_class(cmd_data) for the record classes the modelled      *)
(* device sends.                                                           *)
characteristic_class(class, data) ==
    CASE class = "TempCharacteristic"  -> TempCharacteristic(data)
      [] class = "ProbeCharacteristic" -> ProbeCharacteristic(data)
      [] class = "LightStateCharacteristic" -> LightStateCharacteristic(data)

(* The registry of the brokecopy consumer: ExtractTemp only. *)
cmds == 9 :> "TempCharacteristic"

(* A command tag read with the two bytes in the wrong order. *)
cmd_type_big_endian(decrypted) == from_bytes_big(Slice(decrypted, 1, 3))

cmd_type(decrypted) == from_bytes_little(Slice(decrypted, 1, 3))
cmd_data(decrypted) == Slice(decrypted, 3, 20)

(* The outcome of a packet whose tag is not in the registry. *)
NoRecord == [ok |-> FALSE, val |-> << >>, err |-> ""]

(* Lines 227-234 of the callback (brokecopy: 363-367 of the consumer) for   *)
(* a codec registry, given the outcome of the decryption of line 225:      *)
(* split, look up, decode.  The result is Ok(vars(rec_data)), NoRecord, or *)
(* the exception raised.                                                   *)
decoded_record(registry, decrypted) ==
    IF ~decrypted.ok THEN decrypted
    ELSE IF cmd_type(decrypted.val) \in DOMAIN registry
         THEN characteristic_class(registry[cmd_type(decrypted.val)],
                                   cmd_data(decrypted.val))
         ELSE NoRecord

(* dict.update: the fields of the record overwrite those of the snapshot. *)
update(result, fields) ==
    [k \in (DOMAIN result) \cup (DOMAIN fields) |->
        IF k \in DOMAIN fields THEN fields[k] ELSE result[k]]

(* A callback that merges the first attribute of a record whose            *)
(* construction raised.                                                    *)
callback_handler_partial_merge(result, record) ==
    IF record.ok THEN Ok(update(result, record.val))
    ELSE IF record = NoRecord THEN Ok(result)
    ELSE Ok(update(result, "IsFahrenheit" :> PyInt(0)))

(* The callback on the snapshot, given the outcome of lines 225-234: the   *)
(* new snapshot, or the exception that ends the callback (snapshot kept).  *)
callback_handler(result, record) ==
    IF record.ok THEN Ok(update(result, record.val))
    ELSE IF record = NoRecord THEN Ok(result)
    ELSE record

(***************************************************************************)
(* Inputs of the cipher transform.                                   *)
(***************************************************************************)
MaxPayloadLen == 37
PayloadSeeds  == {0, 101, 250}

Payload(len, seed) == [i \in 1..len |-> (seed + 7 * i) % 256]

(* The fixture key 00 01 .. 0f and a second 16-byte session key. *)
SessionKeyA == [i \in 1..16 |-> i - 1]
SessionKeyB == [i \in 1..16 |-> (200 + 13 * i) % 256]
SessionKeys == {SessionKeyA, SessionKeyB}
KeyOf       == << SessionKeyA, SessionKeyB >>

None == [ok |-> FALSE, val |-> <<>>, err |-> "None"]

(***************************************************************************)
(* The packets the modelled device can notify.  A packet is 20 bytes:      *)
(* a header byte, the command tag (two bytes, low byte first), 17 data     *)
(* bytes.  The device encrypts it with the session key of the connection.  *)
(***************************************************************************)
Packet(tag, data) == << 1, tag % 256, tag \div 256 >> \o pad_byte_array(data, 17)

PacketTempA   == Packet(9, << 0, 3, 44, 1, 250, 0, 1, 1, 2, 2, 1, 3, 3, 4, 4, 3, 99 >>)
PacketTempB   == Packet(9, << 1, 2, 45, 1, 4, 1, 1, 1, 2, 2, 2, 3, 3, 4, 4, 2, 100 >>)
PacketProbe   == Packet(600, << 75, 70, 32, 3, 88, 2 >>)
PacketBadEnum == Packet(9, << 0, 3, 44, 1, 250, 0, 1, 1, 2, 2, 3, 3, 3, 4, 4, 3, 101 >>)
PacketFlex    == Packet(107, << 1, 2, 3, 4 >>)
PacketLight   == Packet(300, << 0, 1, 2, 1, 9, 8, 7, 6, 5 >>)

Packets == << PacketTempA, PacketTempB, PacketProbe, PacketBadEnum, PacketFlex >>

(* Notification ids: one per packet, and one more for a notification that  *)
(* lost its last byte (19 bytes on the wire).                              *)
Truncated       == Len(Packets) + 1
NotificationIds == 1..Truncated

NotificationData(key, n) ==
    Bind(encrypt_characteristic(Packets[IF n = Truncated THEN 1 ELSE n], key).val,
         LAMBDA data : IF n = Truncated THEN Take(data, 19) ELSE data)

(* Notifications[i][n]: notification n of a device whose key is KeyOf[i]. *)
Notifications ==
    Table([i \in 1..2 |->
              Table([n \in NotificationIds |-> NotificationData(KeyOf[i], n)],
                    Truncated)], 2)

(* Line 225 for each notification and each value of self._session_key:     *)
(* Decrypted[i][j][n] is notification n of key i decrypted with key j.     *)
Decrypted ==
    Table([i \in 1..2 |->
       Table([j \in 1..2 |->
          Table([n \in NotificationIds |->
                    decrypt_characteristic(Notifications[i][n], KeyOf[j])],
                Truncated)], 2)], 2)

(* The decode outcome of each notification under a codec registry,         *)
(* computed once.                                                          *)
RecordsTable(registry) ==
    Table([i \in 1..2 |->
       Table([j \in 1..2 |->
          Table([n \in NotificationIds |->
                    decoded_record(registry, Decrypted[i][j][n])],
                Truncated)], 2)], 2)

(* Records[i][j][n]: the device encrypted under key i, decrypted with key j. *)
Records      == RecordsTable(characteristics)
QueueRecords == RecordsTable(cmds)

(* self._session_key before any key was read (None): no bytes. *)
NoKey == << >>

KeyId(key) == IF key = SessionKeyA THEN 1 ELSE IF key = SessionKeyB THEN 2 ELSE 0

(***************************************************************************)
(* What the notification variant writes: the auth token, the data          *)
(* requests and the action commands, encrypted under each session key.     *)
(***************************************************************************)
(* bytes(self._access_code, "utf_8") for the access code "1234". *)
AccessCode == << 49, 50, 51, 52 >>

MacKeys == Table([i \in 1..2 |-> encrypt_mac_key(KeyOf[i], AccessCode).val], 2)

(* The ReadForCatchAll requests of async_gatherdata, in program order. *)
Requests ==
    << << 2, 107 >>, << 2, 5 >>, << 2, 88, 2 >>, << 2, 89, 2 >>, << 2, 90, 2 >>,
       << 2, 91, 2 >> >>

(* RequestData[key id][request] *)
RequestData ==
    Table([i \in 1..2 |->
       Table([r \in 1..Len(Requests) |->
                 encrypt_characteristic(pad_byte_array(Requests[r], 20), KeyOf[i]).val],
             Len(Requests))], 2)

(* struct.pack of an unsigned value into size bytes, low byte first. *)
RECURSIVE to_bytes_little(_, _)
to_bytes_little(n, size) ==
    IF size = 0 THEN << >>
    ELSE << n % 256 >> \o to_bytes_little(n \div 256, size - 1)

(* halo_parsers action encoders: "=3s B i 12x" and "=3s B 16x". *)
(* struct.pack("=3s B i 12x", header_bytes, action, period_minutes): the   *)
(* header cut or zero-padded to 3 bytes, the parameter in two's complement. *)
HaloChlorinatorAction_pack(header_bytes, action, period_minutes) ==
    Take(pad_byte_array(header_bytes, 3), 3) \o << action >>
    \o to_bytes_little(period_minutes, 4) \o pad_byte_array(<< >>, 12)

(* ChlorinatorAction(action).__bytes__() with the default header, 500. *)
HaloChlorinatorAction_bytes(action) ==
    HaloChlorinatorAction_pack(<< 3, 244, 1 >>, action, 0)
HeaterAction_bytes(action) == << 3, 246, 1 >> \o << action >> \o pad_byte_array(<< >>, 16)
SolarAction_bytes(action)  == << 3, 247, 1 >> \o << action >> \o pad_byte_array(<< >>, 16)

(* The action codes a caller passes in the model: Off = 1, Auto = 2. *)
ActionArgs == {1, 2}

WriteKindList == << "write_action", "write_heater_action", "write_solar_action" >>

KindId(kind) == CHOOSE k \in 1..Len(WriteKindList) : WriteKindList[k] = kind

ActionBytes(kind, action) ==
    CASE kind = "write_action"        -> HaloChlorinatorAction_bytes(action)
      [] kind = "write_heater_action" -> HeaterAction_bytes(action)
      [] kind = "write_solar_action"  -> SolarAction_bytes(action)

(* ActionData[kind id][key id][action] *)
ActionData ==
    Table([k \in 1..Len(WriteKindList) |->
       Table([i \in 1..2 |->
          Table([a \in 1..2 |->
                    encrypt_characteristic(ActionBytes(WriteKindList[k], a),
                                           KeyOf[i]).val], 2)], 2)],
          Len(WriteKindList))

VARIABLES
    c_data,         \* plaintext handed to encrypt_characteristic
    c_key,          \* session key of the round trip
    c_pc,           \* "start", "encrypted", "encrypt_raised", "decrypted", "decrypt_raised"
    c_enc,          \* result of encrypt_characteristic(c_data, c_key)
    c_dec,          \* result of decrypt_characteristic(c_enc.val, c_key)
    h_ble_device,   \* self._ble_device: "device" or "None"
    h_connected,    \* self._connected
    h_session_key,  \* self._session_key
    h_result,       \* self._result
    h_call,         \* per call: kind, argument, position, locals, outcome
    h_client,       \* per call: its BleakClient (link, subscription, device key)
    h_ops,          \* per call: the transport operations issued, in order
    h_tasks,        \* callback tasks created and not yet run, oldest first
    h_arrived,      \* every notification delivered so far, in arrival order
    q_queue,        \* brokecopy: the asyncio.Queue between callback and consumer
    q_consumer,     \* brokecopy: halo_queue_consumer position and exception
    p_ble_device,   \* ChlorinatorAPI: self._ble_device, "device" or "None"
    p_session_key,  \* ChlorinatorAPI: self._session_key
    p_result,       \* ChlorinatorAPI: self._result
    p_call,         \* the poll call: kind, argument, position, locals, outcome
    p_client,       \* the poll call's client: "idle", "open" or "closed"
    p_ops,          \* the transport operations the poll call issued, in order
    p_device,       \* the device of the poll call: its key and its values
    f_args,         \* a function under test: the arguments it is called with
    f_pc,           \* a function under test: "start", then the call that was made
    f_ret           \* a function under test: what the last call returned

cvars == << c_data, c_key, c_pc, c_enc, c_dec >>
hvars == << h_ble_device, h_connected, h_session_key, h_result, h_call, h_client,
            h_ops, h_tasks, h_arrived >>
qvars == << q_queue, q_consumer >>
pvars == << p_ble_device, p_session_key, p_result, p_call, p_client, p_ops,
            p_device >>
fvars == << f_args, f_pc, f_ret >>
vars  == << cvars, hvars, qvars, pvars, fvars >>

(* The two calls that may run concurrently on one API instance. *)
Calls == {1, 2}

(* A call that returned None, and a call that has not finished. *)
ReturnsNone == [ok |-> TRUE, val |-> << >>, err |-> "None"]

NoCall   == [kind |-> "none", arg |-> 0, pc |-> "idle", req |-> 1, mac |-> << >>,
             key |-> << >>, elapsed |-> 0, exc |-> "", ret |-> None]
NoClient == [link |-> "idle", sub |-> FALSE, key |-> << >>]

CipherIdle ==
    /\ c_data = << >>
    /\ c_key = << >>
    /\ c_pc = "idle"
    /\ c_enc = None
    /\ c_dec = None

HaloIdle ==
    /\ h_ble_device = "device"
    /\ h_connected = FALSE
    /\ h_session_key = NoKey
    /\ h_result = None
    /\ h_call = [c \in Calls |-> NoCall]
    /\ h_client = [c \in Calls |-> NoClient]
    /\ h_ops = [c \in Calls |-> << >>]
    /\ h_tasks = << >>
    /\ h_arrived = << >>

QueueIdle ==
    /\ q_queue = << >>
    /\ q_consumer = [pc |-> "idle", err |-> ""]

NoPollCall == [kind |-> "none", arg |-> 0, pc |-> "idle", i |-> 1, mac |-> << >>,
               exc |-> "", ret |-> None]

PollIdle ==
    /\ p_ble_device = "device"
    /\ p_session_key = NoKey
    /\ p_result = None
    /\ p_call = NoPollCall
    /\ p_client = "idle"
    /\ p_ops = << >>
    /\ p_device = [key |-> SessionKeyA, second |-> 0]

FuncIdle ==
    /\ f_args = << >>
    /\ f_pc = "idle"
    /\ f_ret = None

(***************************************************************************)
(* Cipher round trip: encrypt a payload, then decrypt the ciphertext.      *)
(***************************************************************************)
CipherInit ==
    /\ c_data \in { Payload(n, s) : n \in 0..MaxPayloadLen, s \in PayloadSeeds }
    /\ c_key \in SessionKeys
    /\ c_pc = "start"
    /\ c_enc = None
    /\ c_dec = None
    /\ HaloIdle
    /\ QueueIdle
    /\ PollIdle
    /\ FuncIdle

CipherEncrypt ==
    /\ c_pc = "start"
    /\ c_enc' = encrypt_characteristic(c_data, c_key)
    /\ c_pc' = IF c_enc'.ok THEN "encrypted" ELSE "encrypt_raised"
    /\ UNCHANGED << c_data, c_key, c_dec, hvars, qvars, pvars, fvars >>

CipherDecrypt ==
    /\ c_pc = "encrypted"
    /\ c_dec' = decrypt_characteristic(c_enc.val, c_key)
    /\ c_pc' = IF c_dec'.ok THEN "decrypted" ELSE "decrypt_raised"
    /\ UNCHANGED << c_data, c_key, c_enc, hvars, qvars, pvars, fvars >>

CipherNext == CipherEncrypt \/ CipherDecrypt

SpecCipher == CipherInit /\ [][CipherNext]_vars

(***************************************************************************)
(* HaloChlorinatorAPI (halochlorinator.py): the calls of one API instance. *)
(*                                                                         *)
(* Each action is one resumption of a coroutine: the awaited operation     *)
(* completes and the code up to the next await runs without interleaving.  *)
(* The arguments of the next operation are evaluated in that code, so the  *)
(* bytes of a write are fixed when the write is issued, one step before it *)
(* completes.  A transport operation on a connection the device has        *)
(* dropped raises BleakError.  Leaving the "async with BleakClient" block, *)
(* normally or by an exception, awaits client.disconnect(): the coroutine  *)
(* is suspended once more, its connection still there, before the call     *)
(* returns or raises.                                                      *)
(***************************************************************************)
timeout        == 15    \* seconds
TicksPerSecond == 10    \* one tick is the 0.1 s of asyncio.sleep(0.1)

(* The longest one asyncio.sleep(0.1) is taken to last, in ticks. *)
MaxSleepTicks  == 2

MaxNotifications == 2

WriteKinds == { WriteKindList[k] : k \in 1..Len(WriteKindList) }

Op(op, char, data) == [op |-> op, char |-> char, data |-> data]

(* The call issues the given transport operations, in order. *)
Issue(c, entries) == h_ops' = [h_ops EXCEPT ![c] = @ \o entries]

(* The call goes on to position pc.  When the operation it has issued is   *)
(* an RX write, key is the value of self._session_key its bytes were       *)
(* encrypted with.                                                         *)
Resume(c, pc, key) == h_call' = [h_call EXCEPT ![c].pc = pc, ![c].key = key]

(* A finished coroutine: its position and outcome; its locals are gone. *)
Finished(call, pc, ret) ==
    [call EXCEPT !.pc = pc, !.ret = ret, !.req = 1, !.mac = << >>, !.key = << >>,
                 !.elapsed = 0, !.exc = ""]

(* The coroutine leaves the async with block, by a return (exc "") or by   *)
(* the exception exc: it awaits client.disconnect().                       *)
Leaving(call, exc) == [call EXCEPT !.pc = "disconnect", !.exc = exc, !.elapsed = 0]

(* An exception leaves the async with block: it propagates when the        *)
(* disconnect has completed.                                               *)
Propagate(c, err) ==
    /\ h_call' = [h_call EXCEPT ![c] = Leaving(@, err)]
    /\ UNCHANGED << h_client, h_ops >>

(* A wait that ends by raising instead of returning. *)
gather_return_raises(result) == Raise("TimeoutError")

(* return self._result *)
gather_return(result) == Ok(result)

(* The dict a returning gather call hands to its caller is the object      *)
(* self._result named when the return statement ran: it follows the merges *)
(* of the callbacks until another call rebinds self._result to a new dict. *)
Rebound(call, result) ==
    IF call.kind = "gather" /\ call.pc = "disconnect" /\ call.exc = "" /\ call.ret = None
    THEN [call EXCEPT !.ret = gather_return(result)]
    ELSE call

(* async_gatherdata, lines 176-183. *)
GatherStart(c) ==
    /\ h_call[c].kind = "gather"
    /\ h_call[c].pc = "start"
    /\ h_result' = << >>
    /\ IF h_ble_device = "None"
       THEN /\ h_call' = [d \in Calls |->
                  IF d = c THEN Finished(h_call[c], "done", Ok(<< >>))
                  ELSE Rebound(h_call[d], h_result)]
            /\ UNCHANGED h_connected
       ELSE /\ h_call' = [d \in Calls |->
                  IF d = c THEN [h_call[c] EXCEPT !.pc = "connect"]
                  ELSE Rebound(h_call[d], h_result)]
            /\ h_connected' = TRUE
    /\ UNCHANGED << h_ble_device, h_session_key, h_client, h_ops, h_tasks,
                    h_arrived, cvars, qvars, pvars, fvars >>

(* The write calls, lines 115-117: poll the flag until it is clear. *)
WriteWait(c) ==
    /\ h_call[c].kind \in WriteKinds
    /\ h_call[c].pc = "start"
    /\ h_call' = [h_call EXCEPT ![c].pc = IF h_connected THEN "start" ELSE "connect"]
    /\ UNCHANGED << h_ble_device, h_connected, h_session_key, h_result, h_client,
                    h_ops, h_tasks, h_arrived, cvars, qvars, pvars, fvars >>

(* The session key the device holds for a connection: one per connection. *)
DeviceKey(c) == IF c = 1 THEN SessionKeyA ELSE SessionKeyB

(* async with BleakClient(...): the connection attempt succeeds, with the  *)
(* session key the device holds for it, or raises.                         *)
Connect(c) ==
    /\ h_call[c].pc = "connect"
    /\ \/ /\ h_ble_device = "device"
          /\ h_client' = [h_client EXCEPT ![c] =
                [link |-> "open", sub |-> FALSE, key |-> DeviceKey(c)]]
          /\ h_call' = [h_call EXCEPT ![c].pc = "read_key"]
          /\ Issue(c, << Op("connect", "", << >>) >>)
       \/ /\ h_call' = [h_call EXCEPT ![c] =
                Finished(@, "raised", Raise("BleakError"))]
          /\ UNCHANGED << h_client, h_ops >>
    /\ UNCHANGED << h_ble_device, h_connected, h_session_key, h_result, h_tasks,
                    h_arrived, cvars, qvars, pvars, fvars >>

(* read_gatt_char(UUID_SLAVE_SESSION_KEY_2), the assignment of the key and *)
(* the computation of the auth token from it.                              *)
ReadKey(c) ==
    /\ h_call[c].pc = "read_key"
    /\ IF h_client[c].link = "open"
       THEN /\ h_session_key' = h_client[c].key
            /\ h_call' = [h_call EXCEPT ![c].pc = "write_mac",
                                        ![c].mac = MacKeys[KeyId(h_client[c].key)]]
            /\ Issue(c, << Op("read", "SLAVE_SESSION_KEY", << >>) >>)
            /\ UNCHANGED h_client
       ELSE /\ Propagate(c, "BleakError")
            /\ UNCHANGED h_session_key
    /\ UNCHANGED << h_ble_device, h_connected, h_result, h_tasks, h_arrived,
                    cvars, qvars, pvars, fvars >>

(* A gather call that goes from the token write straight to its requests. *)
AfterMac_requests_first(kind) ==
    IF kind \in WriteKinds THEN "write_action" ELSE "request"

(* The statement after the token write: the action write of a write call,  *)
(* start_notify of a gather call.                                          *)
AfterMac(kind) ==
    IF kind \in WriteKinds THEN "write_action" ELSE "start_notify"

(* write_gatt_char(UUID_MASTER_AUTHENTICATION_2, mac) completes.  A write   *)
(* call then encodes its action, encrypts it with self._session_key as it  *)
(* is now and issues the RX write; a gather call issues start_notify.      *)
WriteMac(c) ==
    /\ h_call[c].pc = "write_mac"
    /\ IF h_client[c].link = "open"
       THEN /\ Resume(c, AfterMac(h_call[c].kind),
                       IF AfterMac(h_call[c].kind) = "start_notify" THEN << >>
                       ELSE h_session_key)
            /\ Issue(c, << Op("write", "MASTER_AUTHENTICATION", h_call[c].mac) >>)
            /\ UNCHANGED h_client
       ELSE Propagate(c, "BleakError")
    /\ UNCHANGED << h_ble_device, h_connected, h_session_key, h_result, h_tasks,
                    h_arrived, cvars, qvars, pvars, fvars >>

(* The write calls: write_gatt_char(UUID_RX_CHARACTERISTIC, data) of the   *)
(* action, encrypted when the write was issued, completes and the          *)
(* coroutine leaves the async with block.                                  *)
WriteActionData(c) ==
    /\ h_call[c].pc = "write_action"
    /\ IF h_client[c].link = "open"
       THEN /\ Issue(c, << Op("write", "RX",
                    ActionData[KindId(h_call[c].kind)][KeyId(h_call[c].key)][h_call[c].arg]) >>)
            /\ h_call' = [h_call EXCEPT ![c] = Leaving(@, "")]
            /\ UNCHANGED h_client
       ELSE Propagate(c, "BleakError")
    /\ UNCHANGED << h_ble_device, h_connected, h_session_key, h_result, h_tasks,
                    h_arrived, cvars, qvars, pvars, fvars >>

(* The requests a gather call writes: six in halochlorinator.py, the first *)
(* two of them in the brokecopy.                                           *)
RequestCount(kind) == IF kind = "gather" THEN Len(Requests) ELSE 2

(* The call has written request req: the next one is issued, encrypted     *)
(* with key, or the wait starts.                                           *)
NextRequest(c, key) ==
    h_call' = [h_call EXCEPT
       ![c].req = @ + 1,
       ![c].elapsed = 0,
       ![c].key = key,
       ![c].pc = IF h_call[c].req < RequestCount(h_call[c].kind)
                 THEN "request"
                 ELSE IF h_call[c].kind = "gather" THEN "wait"
                 ELSE "sleep_2"]

(* start_notify(UUID_TX_CHARACTERISTIC, callback_handler) completes; the   *)
(* first request is encrypted with self._session_key as it is now and its  *)
(* write is issued.                                                        *)
StartNotify(c) ==
    /\ h_call[c].pc = "start_notify"
    /\ IF h_client[c].link = "open"
       THEN /\ h_client' = [h_client EXCEPT ![c].sub = TRUE]
            /\ Resume(c, "request", h_session_key)
            /\ Issue(c, << Op("start_notify", "TX", << >>) >>)
       ELSE Propagate(c, "BleakError")
    /\ UNCHANGED << h_ble_device, h_connected, h_session_key, h_result, h_tasks,
                    h_arrived, cvars, qvars, pvars, fvars >>

(* One write_gatt_char(UUID_RX_CHARACTERISTIC, encrypt_characteristic(     *)
(* pad_byte_array(request, 20), self._session_key)) completes, with the    *)
(* bytes it was issued with.  The next request is encrypted with           *)
(* self._session_key as it is now and its write is issued; after the last  *)
(* one the wait starts (start_time is taken).                              *)
WriteRequest(c) ==
    /\ h_call[c].pc = "request"
    /\ IF h_client[c].link = "open"
       THEN /\ Issue(c, << Op("write", "RX",
                              RequestData[KeyId(h_call[c].key)][h_call[c].req]) >>)
            /\ NextRequest(c, IF h_call[c].req < RequestCount(h_call[c].kind)
                               THEN h_session_key ELSE << >>)
            /\ UNCHANGED h_client
       ELSE Propagate(c, "BleakError")
    /\ UNCHANGED << h_ble_device, h_connected, h_session_key, h_result, h_tasks,
                    h_arrived, cvars, qvars, pvars, fvars >>

(* A clock that does not advance while the call sleeps. *)
Slept_frozen(elapsed) == { elapsed }

(* loop.time() - start_time is kept rounded up to whole ticks.  The values *)
(* it can have when one more asyncio.sleep(0.1) has ended: the sleep lasts *)
(* 0.1 s or longer (the timer is late, other tasks run first), and the     *)
(* sum of the floats may exceed or fall short of the exact multiple of     *)
(* 0.1, so the time read after n sleeps is n ticks or more.                *)
Slept(elapsed) == { elapsed + ticks : ticks \in 1..MaxSleepTicks }

(* (loop.time() - start_time) > timeout *)
TimedOut(elapsed) == elapsed > timeout * TicksPerSecond

(* asyncio.sleep(0.1) of the wait loop ends, line 315: the loop tests the  *)
(* connection and the time read now, lines 311-312, and sleeps again; on   *)
(* exit lines 333-335 clear the flag, run return self._result and leave    *)
(* the async with block.  (The first test of the loop, at start_time, is   *)
(* part of the step that completes the last request.)                      *)
WaitLoop(c) ==
    /\ h_call[c].pc = "wait"
    /\ \E now \in Slept(h_call[c].elapsed) :
          IF h_client[c].link = "open" /\ ~TimedOut(now)
          THEN /\ h_call' = [h_call EXCEPT ![c].elapsed = now]
               /\ UNCHANGED h_connected
          ELSE /\ h_connected' = FALSE
               /\ h_call' = [h_call EXCEPT ![c] = Leaving(@, "")]
    /\ UNCHANGED << h_ble_device, h_session_key, h_result, h_client, h_ops, h_tasks,
                    h_arrived, cvars, qvars, pvars, fvars >>

(* The device drops the connection: client.is_connected becomes False. *)
DeviceDisconnect(c) ==
    /\ h_client[c].link = "open"
    /\ h_client' = [h_client EXCEPT ![c].link = "lost"]
    /\ UNCHANGED << h_ble_device, h_connected, h_session_key, h_result, h_call,
                    h_ops, h_tasks, h_arrived, cvars, qvars, pvars, fvars >>

(* The device notifies packet n on a subscribed connection: the transport  *)
(* creates a task for the coroutine callback.                              *)
Notify(c, n) ==
    /\ h_client[c].link = "open"
    /\ h_client[c].sub
    /\ Len(h_arrived) < MaxNotifications
    /\ h_tasks' = Append(h_tasks, [call |-> c, n |-> n])
    /\ h_arrived' = Append(h_arrived, n)
    /\ UNCHANGED << h_ble_device, h_connected, h_session_key, h_result, h_call,
                    h_client, h_ops, cvars, qvars, pvars, fvars >>

(* A scheduling that runs the newest callback task first. *)
NextTask_newest(tasks) == Len(tasks)

(* The event loop runs tasks in the order they were created. *)
NextTask(tasks) == 1

RemoveAt(seq, i) == SubSeq(seq, 1, i - 1) \o SubSeq(seq, i + 1, Len(seq))

(* The callback task runs.  halochlorinator.py: callback_handler on the    *)
(* snapshot; an exception ends the task only.  brokecopy: the callback     *)
(* puts (time, data, self._session_key) on the queue.                      *)
RunCallback ==
    /\ h_tasks # << >>
    /\ LET task == h_tasks[NextTask(h_tasks)]
           key  == KeyId(h_client[task.call].key)
       IN  IF h_call[task.call].kind = "gather"
           THEN LET outcome == callback_handler(h_result,
                                   Records[key][KeyId(h_session_key)][task.n])
                IN  /\ h_result' = IF outcome.ok THEN outcome.val ELSE h_result
                    /\ UNCHANGED q_queue
           ELSE /\ q_queue' = Append(q_queue,
                                << "time", [n |-> task.n, key |-> key], h_session_key >>)
                /\ UNCHANGED h_result
    /\ h_tasks' = RemoveAt(h_tasks, NextTask(h_tasks))
    /\ UNCHANGED << h_ble_device, h_connected, h_session_key, h_call, h_client,
                    h_ops, h_arrived, cvars, q_consumer, pvars, fvars >>

(***************************************************************************)
(* The queue variant ("halochlorinator brokecopy.py"): async_gatherdata    *)
(* awaits asyncio.gather(client_task, consumer_task).  The first exception *)
(* of either task is raised to the caller at once; the other task keeps    *)
(* running.  The call returns None when both tasks have finished.          *)
(***************************************************************************)
Sentinel == << "time", None >>

(* Lines 79-83 and 372-376: reset the snapshot, start both tasks. *)
BrokeStart(c) ==
    /\ h_call[c].kind = "gather_brokecopy"
    /\ h_call[c].pc = "start"
    /\ h_result' = << >>
    /\ IF h_ble_device = "None"
       THEN /\ h_call' = [h_call EXCEPT ![c] = Finished(@, "done", Ok(<< >>))]
            /\ UNCHANGED q_consumer
       ELSE /\ h_call' = [h_call EXCEPT ![c].pc = "connect"]
            /\ q_consumer' = [pc |-> "get", err |-> ""]
    /\ UNCHANGED << h_ble_device, h_connected, h_session_key, h_client, h_ops,
                    h_tasks, h_arrived, cvars, q_queue, pvars, fvars >>

(* asyncio.sleep(2) ends, line 122: stop_notify(UUID_TX_CHARACTERISTIC) is *)
(* issued and awaited; the subscription is still on.                       *)
SleepBeforeStop(c) ==
    /\ h_call[c].pc = "sleep_2"
    /\ h_call' = [h_call EXCEPT ![c].pc = "stop_notify"]
    /\ UNCHANGED << h_ble_device, h_connected, h_session_key, h_result, h_client,
                    h_ops, h_tasks, h_arrived, cvars, qvars, pvars, fvars >>

(* stop_notify(UUID_TX_CHARACTERISTIC) completes, line 123, and            *)
(* asyncio.sleep(1) starts.                                                *)
StopNotify(c) ==
    /\ h_call[c].pc = "stop_notify"
    /\ IF h_client[c].link = "open"
       THEN /\ h_client' = [h_client EXCEPT ![c].sub = FALSE]
            /\ h_call' = [h_call EXCEPT ![c].pc = "sleep_1"]
            /\ Issue(c, << Op("stop_notify", "TX", << >>) >>)
       ELSE Propagate(c, "BleakError")
    /\ UNCHANGED << h_ble_device, h_connected, h_session_key, h_result, h_tasks,
                    h_arrived, cvars, qvars, pvars, fvars >>

(* After asyncio.sleep(1): put (time, None) on the queue, run the return   *)
(* of the client task and leave the async with block.                      *)
PutSentinel(c) ==
    /\ h_call[c].pc = "sleep_1"
    /\ q_queue' = Append(q_queue, Sentinel)
    /\ h_call' = [h_call EXCEPT ![c] = Leaving(@, "")]
    /\ UNCHANGED << h_ble_device, h_connected, h_session_key, h_result, h_client,
                    h_ops, h_tasks, h_arrived, cvars, q_consumer, pvars, fvars >>

(* What the call hands to its caller when the disconnect has completed.    *)
(* async_gatherdata of halochlorinator.py returns the dict its return      *)
(* statement named, with every merge made into it since; a write call      *)
(* returns None; in the queue variant asyncio.gather raises the first      *)
(* exception of either task and returns once both tasks have finished.     *)
Outcome(call, result, consumer) ==
    IF call.ret # None THEN call.ret
    ELSE IF call.exc # "" THEN Raise(call.exc)
    ELSE IF call.kind = "gather" THEN gather_return(result)
    ELSE IF call.kind \in WriteKinds \/ consumer.pc = "done" THEN ReturnsNone
    ELSE None

(* client.disconnect() of BleakClient.__aexit__ completes: the connection  *)
(* is closed and the coroutine returns, or raises the exception that left  *)
(* the block.                                                              *)
Disconnect(c) ==
    /\ h_call[c].pc = "disconnect"
    /\ h_client' = [h_client EXCEPT ![c].link = "closed", ![c].sub = FALSE]
    /\ Issue(c, << Op("disconnect", "", << >>) >>)
    /\ LET ret == Outcome(h_call[c], h_result, q_consumer)
       IN  h_call' = [h_call EXCEPT ![c] =
              Finished(@, IF h_call[c].exc # "" THEN "raised"
                          ELSE IF h_call[c].kind = "gather_brokecopy" THEN "returned"
                          ELSE IF ret.ok THEN "done" ELSE "raised",
                       ret)]
    /\ UNCHANGED << h_ble_device, h_connected, h_session_key, h_result, h_tasks,
                    h_arrived, cvars, qvars, pvars, fvars >>

(* One iteration of halo_queue_consumer, lines 351-370: take an item,      *)
(* unpack it into three names, stop on data None, else decode and merge.   *)
ConsumerGet(c) ==
    /\ h_call[c].kind = "gather_brokecopy"
    /\ q_consumer.pc = "get"
    /\ q_queue # << >>
    /\ q_queue' = Tail(q_queue)
    /\ LET item    == Head(q_queue)
           outcome == IF Len(item) # 3 THEN Raise("ValueError")
                      ELSE IF item[2] = None THEN NoRecord
                      ELSE callback_handler(h_result,
                              QueueRecords[item[2].key][KeyId(item[3])][item[2].n])
       IN  /\ h_result' = IF outcome.ok THEN outcome.val ELSE h_result
           /\ q_consumer' =
                 IF outcome.ok THEN q_consumer
                 ELSE IF outcome = NoRecord THEN [pc |-> "done", err |-> ""]
                 ELSE [pc |-> "raised", err |-> outcome.err]
           /\ h_call' = [h_call EXCEPT ![c].ret =
                 IF @ # None \/ outcome.ok THEN @
                 ELSE IF outcome = NoRecord
                      THEN (IF h_call[c].pc = "returned" THEN ReturnsNone ELSE @)
                      ELSE Raise(outcome.err)]
    /\ UNCHANGED << h_ble_device, h_connected, h_session_key, h_client, h_ops,
                    h_tasks, h_arrived, cvars, pvars, fvars >>

(***************************************************************************)
(* One gather session of either notification variant, with the device      *)
(* notifying packets and dropping the connection at any time.              *)
(***************************************************************************)
NotifyInit ==
    /\ CipherIdle
    /\ QueueIdle
    /\ PollIdle
    /\ FuncIdle
    /\ h_ble_device \in {"device", "None"}
    /\ h_connected = FALSE
    /\ h_session_key = NoKey
    /\ h_result = None
    /\ \E kind \in {"gather", "gather_brokecopy"} :
          h_call = [c \in Calls |->
                       IF c = 1 THEN [NoCall EXCEPT !.kind = kind, !.pc = "start"]
                       ELSE NoCall]
    /\ h_client = [c \in Calls |-> NoClient]
    /\ h_ops = [c \in Calls |-> << >>]
    /\ h_tasks = << >>
    /\ h_arrived = << >>

NotifyNext ==
    \/ \E c \in Calls :
          \/ GatherStart(c)
          \/ BrokeStart(c)
          \/ Connect(c)
          \/ ReadKey(c)
          \/ WriteMac(c)
          \/ StartNotify(c)
          \/ WriteRequest(c)
          \/ WaitLoop(c)
          \/ SleepBeforeStop(c)
          \/ StopNotify(c)
          \/ PutSentinel(c)
          \/ Disconnect(c)
          \/ ConsumerGet(c)
          \/ DeviceDisconnect(c)
          \/ \E n \in NotificationIds : Notify(c, n)
    \/ RunCallback

SpecNotify == NotifyInit /\ [][NotifyNext]_vars

(* The event loop resumes a call whose sleep has ended, and the transport  *)
(* completes a disconnect it was asked for.                                *)
SpecNotifyLive ==
    SpecNotify /\ \A c \in Calls : WF_vars(WaitLoop(c)) /\ WF_vars(Disconnect(c))

(***************************************************************************)
(* Two calls started concurrently on one HaloChlorinatorAPI instance.      *)
(***************************************************************************)
ConcCalls ==
    { [NoCall EXCEPT !.kind = "gather", !.pc = "start"] }
    \cup { [NoCall EXCEPT !.kind = k, !.arg = a, !.pc = "start"] :
              k \in WriteKinds, a \in ActionArgs }

ConcInit ==
    /\ CipherIdle
    /\ QueueIdle
    /\ PollIdle
    /\ FuncIdle
    /\ h_ble_device = "device"
    /\ h_connected = FALSE
    /\ h_session_key = NoKey
    /\ h_result = None
    /\ h_call \in [Calls -> ConcCalls]
    /\ h_client = [c \in Calls |-> NoClient]
    /\ h_ops = [c \in Calls |-> << >>]
    /\ h_tasks = << >>
    /\ h_arrived = << >>

ConcNext ==
    \E c \in Calls :
       \/ GatherStart(c)
       \/ WriteWait(c)
       \/ Connect(c)
       \/ ReadKey(c)
       \/ WriteMac(c)
       \/ WriteActionData(c)
       \/ StartNotify(c)
       \/ WriteRequest(c)
       \/ WaitLoop(c)
       \/ Disconnect(c)
       \/ DeviceDisconnect(c)

SpecHaloConc == ConcInit /\ [][ConcNext]_vars

(***************************************************************************)
(* ChlorinatorAPI (chlorinator.py): the poll variant.                      *)
(*                                                                         *)
(* One call of async_gatherdata or async_write_action on an API object.    *)
(* Each action is one resumption of the coroutine; every transport         *)
(* operation succeeds or raises BleakError.                                *)
(***************************************************************************)
(* An encoder that writes the parameter high byte first. *)
ChlorinatorAction_bytes_big_endian(action, period_minutes) ==
    << action >>
    \o [i \in 1..4 |-> to_bytes_little(period_minutes, 4)[5 - i]]
    \o pad_byte_array(<< >>, 15)

(* ChlorinatorAction.__bytes__, "=B i 15x". *)
ChlorinatorAction_bytes(action, period_minutes) ==
    << action >> \o to_bytes_little(period_minutes, 4) \o pad_byte_array(<< >>, 15)

(* async_write_action: what it writes, PollActionData[key id][action]. *)
PollActionData ==
    Table([i \in 1..2 |->
       Table([a \in 1..2 |->
                 encrypt_characteristic(ChlorinatorAction_bytes(a, 0), KeyOf[i]).val],
             2)], 2)

(* A read order that starts with the lighting characteristics. *)
write_action_reads_lighting_first ==
    << "LIGHTING_STATE", "LIGHTING_SETUP", "LIGHTING_TIMERS", "CHLORINATOR_STATE",
       "CHLORINATOR_SETUP", "CHLORINATOR_TIMERS", "CHLORINATOR_SETTINGS" >>
(* The reads of async_write_action between the token and the action. *)
write_action_reads ==
    << "CHLORINATOR_STATE", "CHLORINATOR_SETUP", "CHLORINATOR_TIMERS",
       "CHLORINATOR_SETTINGS", "LIGHTING_STATE", "LIGHTING_SETUP", "LIGHTING_TIMERS" >>

(* The dict parsers of async_gatherdata, in insertion order. *)
parsers ==
    << [uuid |-> "CHLORINATOR_STATE",        parser |-> "ChlorinatorState"],
       [uuid |-> "CHLORINATOR_SETUP",        parser |-> "ChlorinatorSetup"],
       [uuid |-> "CHLORINATOR_CAPABILITIES", parser |-> "ChlorinatorCapabilities"],
       [uuid |-> "CHLORINATOR_TIMERS",       parser |-> "ChlorinatorTimers"],
       [uuid |-> "CHLORINATOR_STATISTICS",   parser |-> "ChlorinatorStatistics"],
       [uuid |-> "CHLORINATOR_SETTINGS",     parser |-> "ChlorinatorSettings"] >>

(* parser(databytes) *)
parser_call(parser, databytes) ==
    CASE parser = "ChlorinatorState"        -> ChlorinatorState(databytes)
      [] parser = "ChlorinatorSetup"        -> ChlorinatorSetup(databytes)
      [] parser = "ChlorinatorCapabilities" -> ChlorinatorCapabilities(databytes)
      [] parser = "ChlorinatorTimers"       -> ChlorinatorTimers(databytes)
      [] parser = "ChlorinatorStatistics"   -> ChlorinatorStatistics(databytes)
      [] parser = "ChlorinatorSettings"     -> ChlorinatorSettings(databytes)

(* Lines 162-165, given the outcome of decrypt_characteristic:             *)
(* vars(parser(databytes)), or the exception raised.                       *)
poll_record(parser, databytes) ==
    IF ~databytes.ok THEN databytes ELSE parser_call(parser, databytes.val)

(* The values the modelled device holds for the six characteristics, as    *)
(* 20-byte plaintexts: PollPlain[i][1] is a well-formed value of           *)
(* characteristic i, PollPlain[i][2] a second one (a mode, or an inhibit   *)
(* status, outside its enumeration; volume-unit bits 8; other numbers).    *)
PollPlain ==
    << << pad_byte_array(<< 2, 1, 1, 0, 0, 33, 74, 4, 10, 30, 15 >>, 20),
          pad_byte_array(<< 3, 1, 1, 0, 0, 33, 74, 4, 10, 30, 15 >>, 20) >>,
       << pad_byte_array(<< 1, 74, 138, 2, 3 >>, 20),
          pad_byte_array(<< 2, 72, 188, 2, 0 >>, 20) >>,
       << << 0, 10, 0, 10, 68, 78, 50, 80, 2, 2, 19, 25, 2, 15, 4, 64, 156, 0, 232, 3 >>,
          << 0, 10, 0, 10, 68, 78, 50, 80, 2, 2, 8, 25, 2, 15, 4, 64, 156, 0, 232, 3 >> >>,
       << pad_byte_array(<< 104, 0, 12, 30, 57, 15, 20, 0, 0, 0, 0, 0, 160, 0, 6, 0 >>, 20),
          pad_byte_array(<< 104, 0, 12, 30, 57, 15, 20, 0, 0, 0, 0, 0, 160, 0, 6, 0 >>, 20) >>,
       << pad_byte_array(<< 80, 70, 188, 2, 88, 2, 12, 0, 136, 19, 0, 0, 10, 0, 0, 0,
                            55 >>, 20),
          pad_byte_array(<< 81, 69, 189, 2, 87, 2, 13, 0, 137, 19, 0, 0, 11, 0, 0, 0,
                            56 >>, 20) >>,
       << pad_byte_array(<< 120, 0, 2 >>, 20),
          pad_byte_array(<< 120, 0, 3 >>, 20) >> >>

(* The bytes a read of characteristic i returns: the plaintext encrypted   *)
(* under the key of the connection; the second timers value arrives cut    *)
(* to 3 bytes.                                                             *)
TimersIndex == 4

PollValue(key, i, v) ==
    Bind(encrypt_characteristic(PollPlain[i][v], key).val,
         LAMBDA value : IF i = TimersIndex /\ v = 2 THEN Take(value, 3) ELSE value)

(* PollValues[key id][i][v] *)
PollValues ==
    Table([k \in 1..2 |->
       Table([i \in 1..Len(parsers) |->
          Table([v \in 1..2 |-> PollValue(KeyOf[k], i, v)], 2)],
             Len(parsers))], 2)

(* decrypt_characteristic(await client.read_gatt_char(uuid), key) *)
PollDecrypted ==
    Table([k \in 1..2 |->
       Table([i \in 1..Len(parsers) |->
          Table([v \in 1..2 |->
                    decrypt_characteristic(PollValues[k][i][v], KeyOf[k])], 2)],
             Len(parsers))], 2)

(* The outcome of lines 162-165 for each value of the device, computed     *)
(* once: PollRecords[key id][i][v].                                        *)
PollRecords ==
    Table([k \in 1..2 |->
       Table([i \in 1..Len(parsers) |->
          Table([v \in 1..2 |->
                    poll_record(parsers[i].parser, PollDecrypted[k][i][v])], 2)],
             Len(parsers))], 2)

(* A device holds the first value of every characteristic, except the      *)
(* second value of characteristic "second" (0: of none).                   *)
PollDevices == [key : SessionKeys, second : 0..Len(parsers)]

ValueOf(device, i) == IF device.second = i THEN 2 ELSE 1

PollOp(op, char, data, ok) == [op |-> op, char |-> char, data |-> data, ok |-> ok]

(* A finished call: its position and outcome; its locals are gone. *)
PollFinished(call, pc, ret) ==
    [call EXCEPT !.pc = pc, !.ret = ret, !.i = 1, !.mac = << >>, !.exc = ""]

(* An exception inside the try block that is dropped. *)
on_exception_swallowed(call, err) == [call EXCEPT !.pc = "finally"]
(* An exception inside the try block: the finally clause runs, then the    *)
(* exception propagates.                                                   *)
on_exception(call, err) == [call EXCEPT !.pc = "finally", !.exc = err]

(* async_gatherdata, lines 129-133. *)
PollGatherStart ==
    /\ p_call.kind = "gatherdata"
    /\ p_call.pc = "start"
    /\ p_result' = << >>
    /\ p_call' = IF p_ble_device = "None"
                 THEN PollFinished(p_call, "done", Ok(<< >>))
                 ELSE [p_call EXCEPT !.pc = "connect"]
    /\ UNCHANGED << p_ble_device, p_session_key, p_client, p_ops, p_device,
                    cvars, hvars, qvars, fvars >>

(* establish_connection(...), outside the try block: the arguments are     *)
(* evaluated first (self._ble_device.name), then the connection is made    *)
(* or the attempts are exhausted.                                          *)
PollConnect ==
    /\ p_call.pc = "connect"
    /\ IF p_ble_device = "None"
       THEN /\ p_call' = PollFinished(p_call, "raised", Raise("AttributeError"))
            /\ UNCHANGED << p_client, p_ops >>
       ELSE \/ /\ p_client' = "open"
               /\ p_ops' = Append(p_ops, PollOp("connect", "", << >>, TRUE))
               /\ p_call' = [p_call EXCEPT !.pc = "read_key"]
            \/ /\ p_call' = PollFinished(p_call, "raised", Raise("BleakError"))
               /\ UNCHANGED << p_client, p_ops >>
    /\ UNCHANGED << p_ble_device, p_session_key, p_result, p_device,
                    cvars, hvars, qvars, fvars >>

(* self._session_key = await client.read_gatt_char(UUID_SLAVE_SESSION_KEY) *)
(* and the computation of the token.                                       *)
PollReadKey ==
    /\ p_call.pc = "read_key"
    /\ \/ /\ p_session_key' = p_device.key
          /\ p_ops' = Append(p_ops, PollOp("read", "SLAVE_SESSION_KEY", << >>, TRUE))
          /\ p_call' = [p_call EXCEPT !.pc = "write_mac",
                                      !.mac = MacKeys[KeyId(p_device.key)]]
       \/ /\ p_ops' = Append(p_ops, PollOp("read", "SLAVE_SESSION_KEY", << >>, FALSE))
          /\ p_call' = on_exception(p_call, "BleakError")
          /\ UNCHANGED p_session_key
    /\ UNCHANGED << p_ble_device, p_result, p_client, p_device, cvars, hvars, qvars, fvars >>

(* await client.write_gatt_char(UUID_MASTER_AUTHENTICATION, mac) *)
PollWriteMac ==
    /\ p_call.pc = "write_mac"
    /\ \/ /\ p_ops' = Append(p_ops,
                         PollOp("write", "MASTER_AUTHENTICATION", p_call.mac, TRUE))
          /\ p_call' = [p_call EXCEPT !.pc = "read", !.i = 1]
       \/ /\ p_ops' = Append(p_ops,
                         PollOp("write", "MASTER_AUTHENTICATION", p_call.mac, FALSE))
          /\ p_call' = on_exception(p_call, "BleakError")
    /\ UNCHANGED << p_ble_device, p_session_key, p_result, p_client, p_device,
                    cvars, hvars, qvars, fvars >>

(* async_write_action, lines 110-116: one read, its value dropped. *)
PollReadDiscard ==
    /\ p_call.kind = "write_action"
    /\ p_call.pc = "read"
    /\ \/ /\ p_ops' = Append(p_ops,
                         PollOp("read", write_action_reads[p_call.i], << >>, TRUE))
          /\ p_call' = IF p_call.i = Len(write_action_reads)
                       THEN [p_call EXCEPT !.pc = "write_action", !.i = 1]
                       ELSE [p_call EXCEPT !.i = @ + 1]
       \/ /\ p_ops' = Append(p_ops,
                         PollOp("read", write_action_reads[p_call.i], << >>, FALSE))
          /\ p_call' = on_exception(p_call, "BleakError")
    /\ UNCHANGED << p_ble_device, p_session_key, p_result, p_client, p_device,
                    cvars, hvars, qvars, fvars >>

(* async_write_action, lines 118-123. *)
PollWriteAction ==
    /\ p_call.pc = "write_action"
    /\ LET data == PollActionData[KeyId(p_session_key)][p_call.arg]
       IN  \/ /\ p_ops' = Append(p_ops,
                             PollOp("write", "CHLORINATOR_APP_ACTION", data, TRUE))
              /\ p_call' = [p_call EXCEPT !.pc = "finally"]
           \/ /\ p_ops' = Append(p_ops,
                             PollOp("write", "CHLORINATOR_APP_ACTION", data, FALSE))
              /\ p_call' = on_exception(p_call, "BleakError")
    /\ UNCHANGED << p_ble_device, p_session_key, p_result, p_client, p_device,
                    cvars, hvars, qvars, fvars >>

(* async_gatherdata, lines 161-165: one turn of the loop over parsers. *)
PollReadParse ==
    /\ p_call.kind = "gatherdata"
    /\ p_call.pc = "read"
    /\ \/ LET record == PollRecords[KeyId(p_session_key)][p_call.i]
                                   [ValueOf(p_device, p_call.i)]
          IN  /\ p_ops' = Append(p_ops,
                             PollOp("read", parsers[p_call.i].uuid, << >>, TRUE))
              /\ IF record.ok
                 THEN /\ p_result' = update(p_result, record.val)
                      /\ p_call' = IF p_call.i = Len(parsers)
                                   THEN [p_call EXCEPT !.pc = "finally", !.i = 1]
                                   ELSE [p_call EXCEPT !.i = @ + 1]
                 ELSE /\ p_call' = on_exception(p_call, record.err)
                      /\ UNCHANGED p_result
       \/ /\ p_ops' = Append(p_ops,
                         PollOp("read", parsers[p_call.i].uuid, << >>, FALSE))
          /\ p_call' = on_exception(p_call, "BleakError")
          /\ UNCHANGED p_result
    /\ UNCHANGED << p_ble_device, p_session_key, p_client, p_device,
                    cvars, hvars, qvars, fvars >>

(* A call that ends without a finally clause: no disconnect. *)
PollDisconnect_skipped ==
    /\ p_call.pc = "finally"
    /\ p_call' =
          IF p_call.exc # "" THEN PollFinished(p_call, "raised", Raise(p_call.exc))
          ELSE IF p_call.kind = "gatherdata"
               THEN PollFinished(p_call, "done", Ok(p_result))
               ELSE PollFinished(p_call, "done", ReturnsNone)
    /\ UNCHANGED << p_ble_device, p_session_key, p_result, p_client, p_ops, p_device,
                    cvars, hvars, qvars, fvars >>

(* finally: await client.disconnect(); then the return, or the exception   *)
(* that entered the finally clause.                                        *)
PollDisconnect ==
    /\ p_call.pc = "finally"
    /\ p_ops' = Append(p_ops, PollOp("disconnect", "", << >>, TRUE))
    /\ p_client' = "closed"
    /\ p_call' =
          IF p_call.exc # "" THEN PollFinished(p_call, "raised", Raise(p_call.exc))
          ELSE IF p_call.kind = "gatherdata"
               THEN PollFinished(p_call, "done", Ok(p_result))
               ELSE PollFinished(p_call, "done", ReturnsNone)
    /\ UNCHANGED << p_ble_device, p_session_key, p_result, p_device,
                    cvars, hvars, qvars, fvars >>

PollCalls ==
    { [NoPollCall EXCEPT !.kind = "gatherdata", !.pc = "start"] }
    \cup { [NoPollCall EXCEPT !.kind = "write_action", !.arg = a, !.pc = "connect"] :
              a \in ActionArgs }

PollInit ==
    /\ CipherIdle
    /\ HaloIdle
    /\ QueueIdle
    /\ FuncIdle
    /\ p_ble_device \in {"device", "None"}
    /\ p_session_key = NoKey
    /\ p_result = None
    /\ p_call \in PollCalls
    /\ p_client = "idle"
    /\ p_ops = << >>
    /\ p_device \in PollDevices

PollNext ==
    \/ PollGatherStart
    \/ PollConnect
    \/ PollReadKey
    \/ PollWriteMac
    \/ PollReadDiscard
    \/ PollWriteAction
    \/ PollReadParse
    \/ PollDisconnect

SpecPoll == PollInit /\ [][PollNext]_vars

(***************************************************************************)
(* C1 as stated: for every payload of any length and every 16-byte key,    *)
(* decrypt_characteristic(encrypt_characteristic(p, k), k) returns p.      *)
(* Once the round trip has been attempted it has ended with p.             *)
(***************************************************************************)
C1_RoundTripAnyLength ==
    (c_pc \notin {"start", "encrypted"}) => (c_pc = "decrypted" /\ c_dec = Ok(c_data))

(* The payload lengths whose two cipher ranges are whole blocks. *)
WholeBlocks(n) == n >= 20 /\ ((n - 4) % 16) = 0

(***************************************************************************)
(* C1 amended: for payloads of length 4 + 16n (n >= 1) the round trip      *)
(* returns exactly the payload; for every other length the encryption      *)
(* raises ValueError and returns nothing.                                  *)
(***************************************************************************)
C1_RoundTripWholeBlocks ==
    /\ c_pc = "decrypted" => c_dec = Ok(c_data)
    /\ c_pc # "decrypt_raised"
    /\ c_pc # "start" =>
          IF WholeBlocks(Len(c_data))
          THEN c_pc \in {"encrypted", "decrypted"}
          ELSE c_pc = "encrypt_raised" /\ c_enc = Raise("ValueError")

C1_Witness ==
    /\ c_pc = "decrypted"
    /\ Len(c_data) = 36
    /\ c_enc.val # c_data
    /\ c_key = SessionKeyB

(***************************************************************************)
(* C2: on one HaloChlorinatorAPI instance at most one call has an open     *)
(* connection at any time, for every interleaving of concurrently started  *)
(* gather and write calls.                                                 *)
(***************************************************************************)
C2_AtMostOneConnection ==
    Cardinality({ c \in Calls : h_client[c].link = "open" }) <= 1

(***************************************************************************)
(* What the snapshot must hold after a sequence of notifications has been  *)
(* processed, stated per field: the field names are those of the records   *)
(* that decoded, and each field has the value of the last notification in  *)
(* the sequence whose record has that field.                               *)
(***************************************************************************)
GatherKinds == {"gather", "gather_brokecopy"}

RecordOf(c, n) ==
    LET k == KeyId(DeviceKey(c))
    IN  IF h_call[c].kind = "gather" THEN Records[k][k][n] ELSE QueueRecords[k][k][n]

Defines(c, n, f) == RecordOf(c, n).ok /\ f \in DOMAIN RecordOf(c, n).val

FieldsOf(c, seq) ==
    UNION { DOMAIN RecordOf(c, seq[i]).val :
               i \in { j \in 1..Len(seq) : RecordOf(c, seq[j]).ok } }

LastDefining(c, seq, f) ==
    CHOOSE i \in 1..Len(seq) :
        /\ Defines(c, seq[i], f)
        /\ \A j \in (i + 1)..Len(seq) : ~Defines(c, seq[j], f)

HoldsLastValues(c, snapshot, seq) ==
    /\ DOMAIN snapshot = FieldsOf(c, seq)
    /\ \A f \in DOMAIN snapshot :
          snapshot[f] = RecordOf(c, seq[LastDefining(c, seq, f)]).val[f]

(* Queue items that carry a notification (not the end marker). *)
QueuedData == { i \in 1..Len(q_queue) : Len(q_queue[i]) = 3 }

(* The notifications processed so far: all that arrived but those whose    *)
(* callback task has not run or whose queue item has not been taken.       *)
Processed == SubSeq(h_arrived, 1, Len(h_arrived) - Len(h_tasks) - Cardinality(QueuedData))

(***************************************************************************)
(* C3: in the notification variant the packets are decoded and merged in   *)
(* their arrival order: at every moment of a gather session, and so at its *)
(* end, the snapshot's fields are the union of the fields of the records   *)
(* decoded so far and each field holds the value of the last-arrived       *)
(* processed packet whose record defines it.                               *)
(***************************************************************************)
C3_MergedInArrivalOrder ==
    \A c \in Calls :
        (h_call[c].kind \in GatherKinds /\ h_call[c].pc # "start")
            => HoldsLastValues(c, h_result, Processed)

(* TempB then TempA arrived and were merged; the session returned TempA's  *)
(* water temperature and valid flag.                                       *)
C3_Witness ==
    /\ h_call[1].kind = "gather"
    /\ h_call[1].pc = "done"
    /\ h_arrived = << 2, 1 >>
    /\ h_tasks = << >>
    /\ DOMAIN h_call[1].ret.val = DOMAIN Records[1][1][1].val
    /\ h_call[1].ret.val["WaterTemp"] = TrueDiv10(250)
    /\ h_call[1].ret.val["IsFahrenheit"] = PyInt(0)

ProbeFields(packet) ==
    [HighestPhMeasured  |-> TrueDiv10(packet[4]),
     LowestPhMeasured   |-> TrueDiv10(packet[5]),
     HighestOrpMeasured |-> PyInt(packet[6] + 256 * packet[7]),
     LowestOrpMeasured  |-> PyInt(packet[8] + 256 * packet[9])]

(***************************************************************************)
(* C4: the callback reads the command tag as the little-endian 16-bit      *)
(* value of bytes [1:3] and the data as bytes [3:20].  A packet whose tag  *)
(* is not in the registry is dropped: the snapshot is unchanged, nothing   *)
(* is raised and the call goes on; a probe packet (tag 600 = 0x58 0x02) is *)
(* decoded from the bytes that follow the tag.                             *)
(***************************************************************************)
C4_TagSliceAndDrop ==
    [][ \A c \in Calls :
          ( /\ h_call[c].kind = "gather"
            /\ h_tasks # << >>
            /\ h_tasks' = Tail(h_tasks)
            /\ Head(h_tasks).call = c
            /\ Head(h_tasks).n # Truncated )
          => LET packet == Packets[Head(h_tasks).n]
                 tag    == packet[2] + 256 * packet[3]
             IN  /\ tag \notin DOMAIN characteristics
                      => (h_result' = h_result /\ h_call' = h_call)
                 /\ tag = 600
                      => \A f \in DOMAIN ProbeFields(packet) :
                            /\ f \in DOMAIN h_result'
                            /\ h_result'[f] = ProbeFields(packet)[f]
      ]_vars

(* A packet with the unregistered tag 107 was dropped, and the probe       *)
(* packet that arrived after it was merged.                                *)
C4_Witness ==
    /\ h_call[1].kind = "gather"
    /\ h_arrived = << 5, 3 >>
    /\ h_tasks = << >>
    /\ h_result = Records[1][1][3].val
    /\ h_call[1].pc = "wait"

FailsToDecode(record) == ~record.ok /\ record # NoRecord

(***************************************************************************)
(* C5: in the notification variant a packet that fails to decode does not  *)
(* abort the gather session: the step that processes it raises nothing to  *)
(* the caller and leaves the processing of later packets running.          *)
(***************************************************************************)
C5_DecodeFailureKeepsSession ==
    [][ \A c \in Calls :
          /\ ( /\ h_call[c].kind = "gather"
               /\ h_tasks # << >>
               /\ h_tasks' = Tail(h_tasks)
               /\ Head(h_tasks).call = c
               /\ FailsToDecode(RecordOf(c, Head(h_tasks).n)) )
             => (h_call' = h_call /\ h_result' = h_result)
          /\ ( /\ h_call[c].kind = "gather_brokecopy"
               /\ q_queue # << >>
               /\ q_queue' = Tail(q_queue)
               /\ Len(Head(q_queue)) = 3
               /\ FailsToDecode(RecordOf(c, Head(q_queue)[2].n)) )
             => (h_call' = h_call /\ q_consumer'.pc = "get")
      ]_vars

(***************************************************************************)
(* C6: once the requests are written, async_gatherdata terminates: from    *)
(* the wait loop it always reaches its return, and it sleeps again only     *)
(* while the client is connected and the 15 s have not elapsed.            *)
(***************************************************************************)
C6_WaitTerminates ==
    /\ \A c \in Calls : (h_call[c].pc = "wait") ~> (h_call[c].pc = "done")
    /\ [][ \A c \in Calls :
             (h_call[c].pc = "wait" /\ h_call'[c].pc = "wait"
                 /\ h_call'[c].elapsed # h_call[c].elapsed)
                => ( /\ h_client[c].link = "open"
                     /\ h_call[c].elapsed < h_call'[c].elapsed
                     /\ h_call'[c].elapsed <= timeout * TicksPerSecond )
         ]_vars

(* The wait has outlasted the timeout on a live connection while every     *)
(* notification the model allows has arrived: the call has left the loop   *)
(* and its connection, never dropped, is about to be closed.               *)
C6_Witness ==
    /\ h_call[1].kind = "gather"
    /\ h_call[1].pc = "disconnect"
    /\ h_call[1].exc = ""
    /\ h_client[1].link = "open"
    /\ ~h_connected
    /\ Len(h_arrived) = MaxNotifications

(***************************************************************************)
(* C7: when the wait of async_gatherdata ends, by disconnection or by the  *)
(* timeout, the call leaves the session without an exception and, once its *)
(* connection is closed, returns normally; the returned snapshot holds     *)
(* exactly the fields of the records merged up to the return.              *)
(***************************************************************************)
C7_PartialResultReturned ==
    [][ \A c \in Calls :
          /\ (h_call[c].pc = "wait" /\ h_call'[c].pc # "wait")
                => (h_call'[c].pc = "disconnect" /\ h_call'[c].exc = "")
          /\ ( /\ h_call[c].kind = "gather"
               /\ h_call[c].pc = "disconnect"
               /\ h_call[c].exc = ""
               /\ h_call'[c].pc # "disconnect" )
                => /\ h_call'[c].pc = "done"
                   /\ h_call'[c].ret.ok
                   /\ HoldsLastValues(c, h_call'[c].ret.val, Processed)
      ]_vars

(* The session ended after one of the packets only, a second one still     *)
(* waiting for its callback: the caller got the first packet's fields.     *)
C7_Witness ==
    /\ h_call[1].kind = "gather"
    /\ h_call[1].pc = "done"
    /\ h_arrived = << 3, 1 >>
    /\ Len(h_tasks) = 1
    /\ h_call[1].ret = Ok(Records[1][1][3].val)

(* The reads and writes the poll call has issued, as (operation,           *)
(* characteristic) pairs in the order of issue.                            *)
PollTransport == SelectSeq(p_ops, LAMBDA o : o.op \in {"read", "write"})

PollNames ==
    [i \in 1..Len(PollTransport) |-> << PollTransport[i].op, PollTransport[i].char >>]

IsPrefix(s, t) == Len(s) <= Len(t) /\ \A i \in 1..Len(s) : s[i] = t[i]

(* The order of async_write_action: key, token, seven reads, the action. *)
HandshakeOrder ==
    << << "read", "SLAVE_SESSION_KEY" >>, << "write", "MASTER_AUTHENTICATION" >>,
       << "read", "CHLORINATOR_STATE" >>, << "read", "CHLORINATOR_SETUP" >>,
       << "read", "CHLORINATOR_TIMERS" >>, << "read", "CHLORINATOR_SETTINGS" >>,
       << "read", "LIGHTING_STATE" >>, << "read", "LIGHTING_SETUP" >>,
       << "read", "LIGHTING_TIMERS" >>, << "write", "CHLORINATOR_APP_ACTION" >> >>

(* The order of a gather session: key, token, the six decoded reads. *)
GatherOrder ==
    << << "read", "SLAVE_SESSION_KEY" >>, << "write", "MASTER_AUTHENTICATION" >>,
       << "read", "CHLORINATOR_STATE" >>, << "read", "CHLORINATOR_SETUP" >>,
       << "read", "CHLORINATOR_CAPABILITIES" >>, << "read", "CHLORINATOR_TIMERS" >>,
       << "read", "CHLORINATOR_STATISTICS" >>, << "read", "CHLORINATOR_SETTINGS" >> >>

(* The first operation of the poll call that failed, 0 if none did. *)
FirstFailed ==
    IF \E i \in 1..Len(p_ops) : ~p_ops[i].ok
    THEN CHOOSE i \in 1..Len(p_ops) : ~p_ops[i].ok /\ \A j \in 1..(i - 1) : p_ops[j].ok
    ELSE 0

(***************************************************************************)
(* C8 as stated: in every poll-variant session, of either call, the reads  *)
(* and writes issued so far are a prefix of: read the session key, write   *)
(* the token, read state, setup, timers, settings, lighting state,         *)
(* lighting setup, lighting timers, write the action.                      *)
(***************************************************************************)
C8_HandshakeOrderEverySession == IsPrefix(PollNames, HandshakeOrder)

(***************************************************************************)
(* C8 amended: the stated order is the order of async_write_action, which  *)
(* keeps none of the values it reads; async_gatherdata reads the key,      *)
(* writes the token, then reads state, setup, capabilities, timers,        *)
(* statistics and settings, and writes no action.  In both calls nothing   *)
(* is read or written before the connection is made.                       *)
(***************************************************************************)
C8_HandshakeOrderPerCall ==
    /\ p_call.kind = "write_action" =>
          /\ IsPrefix(PollNames, HandshakeOrder)
          /\ p_result = None
    /\ p_call.kind = "gatherdata" => IsPrefix(PollNames, GatherOrder)
    /\ p_ops # << >> => p_ops[1].op = "connect"

(* An async_write_action call has returned after the key read, the token   *)
(* write, the seven reads and the action write, then the disconnect.       *)
C8_Witness ==
    /\ p_call.kind = "write_action"
    /\ p_call.pc = "done"
    /\ PollNames = HandshakeOrder
    /\ \A i \in 1..Len(p_ops) : p_ops[i].ok
    /\ p_ops[Len(p_ops)].op = "disconnect"

(***************************************************************************)
(* C9: in the poll variant, once a transport read or write has failed, no  *)
(* further read or write is issued (the failed one is the last, followed   *)
(* at most by the disconnect), no record is merged into the snapshot, and  *)
(* the call ends by raising the error to its caller.                       *)
(***************************************************************************)
C9_FailureAbortsSession ==
    /\ [](FirstFailed # 0 =>
            /\ p_ops[FirstFailed].op \in {"read", "write"}
            /\ Len(p_ops) <= FirstFailed + 1
            /\ Len(p_ops) = FirstFailed + 1 => p_ops[Len(p_ops)].op = "disconnect"
            /\ p_call.pc \in {"finally", "raised"}
            /\ p_call.pc = "raised" =>
                  /\ p_call.ret = Raise("BleakError")
                  /\ Len(p_ops) = FirstFailed + 1)
    /\ [][FirstFailed # 0 => p_result' = p_result]_vars

(* A gather call whose third data read failed: state and setup were        *)
(* merged, nothing of the capabilities; the call disconnected and raised.  *)
C9_Witness ==
    /\ p_call.kind = "gatherdata"
    /\ p_call.pc = "raised"
    /\ Len(p_ops) = 7
    /\ FirstFailed = 6
    /\ p_ops[6].char = "CHLORINATOR_CAPABILITIES"
    /\ p_ops[7].op = "disconnect"
    /\ "mode" \in DOMAIN p_result
    /\ "cell_size" \notin DOMAIN p_result

(***************************************************************************)
(* C10: in a notification-variant session every request written to the RX  *)
(* characteristic comes after start_notify on the TX characteristic, which *)
(* comes after the auth-token write, and no stop_notify or disconnect lies *)
(* between the subscription and the request.                               *)
(***************************************************************************)
C10_SubscribedBeforeRequests ==
    \A c \in Calls :
        h_call[c].kind \in GatherKinds =>
            \A i \in 1..Len(h_ops[c]) :
                (h_ops[c][i].op = "write" /\ h_ops[c][i].char = "RX") =>
                    \E j \in 1..(i - 1) :
                        /\ h_ops[c][j].op = "start_notify"
                        /\ h_ops[c][j].char = "TX"
                        /\ \E k \in 1..(j - 1) :
                              /\ h_ops[c][k].op = "write"
                              /\ h_ops[c][k].char = "MASTER_AUTHENTICATION"
                        /\ \A m \in j..i :
                              h_ops[c][m].op \notin {"stop_notify", "disconnect"}

(* All six requests of halochlorinator.py have been written. *)
C10_Witness ==
    /\ h_call[1].kind = "gather"
    /\ Len(h_ops[1]) = 10
    /\ h_ops[1][10].char = "RX"
    /\ h_ops[1][4].op = "start_notify"
    /\ h_client[1].sub

(***************************************************************************)
(* C11: the session key lives only as long as its connection: once a call  *)
(* of the HaloChlorinatorAPI object has closed its connection and no other *)
(* connection is open, the object holds no session key.                    *)
(***************************************************************************)
C11_KeyDiscardedAfterSession ==
    (/\ \E c \in Calls : h_client[c].link = "closed"
     /\ \A c \in Calls : h_client[c].link \in {"idle", "closed"})
        => h_session_key = NoKey

(***************************************************************************)
(* xor_bytes as a function: it is applied to two byte strings, in either   *)
(* order, and a second time to its own result and the second operand.      *)
(***************************************************************************)
MaxXorLen == 3
XorByteValues == {0, 165, 255}

ByteStrings(values, n) == UNION { [1..k -> values] : k \in 0..n }

XorInit ==
    /\ CipherIdle
    /\ HaloIdle
    /\ QueueIdle
    /\ PollIdle
    /\ f_args \in ByteStrings(XorByteValues, MaxXorLen) \X ByteStrings(XorByteValues, MaxXorLen)
    /\ f_pc = "start"
    /\ f_ret = None

(* xor_bytes(a, b) *)
XorApply ==
    /\ f_pc = "start"
    /\ f_ret' = xor_bytes(f_args[1], f_args[2])
    /\ f_pc' = "applied"
    /\ UNCHANGED << f_args, cvars, hvars, qvars, pvars >>

(* xor_bytes(b, a) *)
XorSwapped ==
    /\ f_pc = "start"
    /\ f_ret' = xor_bytes(f_args[2], f_args[1])
    /\ f_pc' = "swapped"
    /\ UNCHANGED << f_args, cvars, hvars, qvars, pvars >>

(* xor_bytes(xor_bytes(a, b), b) *)
XorAgain ==
    /\ f_pc = "applied"
    /\ f_ret' = xor_bytes(f_ret, f_args[2])
    /\ f_pc' = "again"
    /\ UNCHANGED << f_args, cvars, hvars, qvars, pvars >>

XorNext == XorApply \/ XorSwapped \/ XorAgain

SpecXor == XorInit /\ [][XorNext]_vars

(***************************************************************************)
(* C12 as stated: xor_bytes is its own inverse: for all byte strings a and *)
(* b with len(b) >= len(a), xor_bytes(xor_bytes(a, b), b) equals a.        *)
(***************************************************************************)
C12_XorIsOwnInverse ==
    (f_pc = "again" /\ Len(f_args[2]) >= Len(f_args[1])) => f_ret = f_args[1]

(***************************************************************************)
(* C12 amended: for len(b) >= len(a), xor_bytes(xor_bytes(a, b), b) is a   *)
(* padded on the right with zero bytes to the length of b; it is a itself  *)
(* exactly when a and b have the same length.                              *)
(***************************************************************************)
C12_XorTwiceIsPaddedOperand ==
    (f_pc = "again" /\ Len(f_args[2]) >= Len(f_args[1])) =>
        /\ f_ret = f_args[1] \o [i \in 1..(Len(f_args[2]) - Len(f_args[1])) |-> 0]
        /\ (f_ret = f_args[1]) <=> (Len(f_args[1]) = Len(f_args[2]))

(* A two-byte operand comes back three bytes long. *)
C12_Witness ==
    /\ f_pc = "again"
    /\ f_args = << << 165, 255 >>, << 255, 0, 165 >> >>
    /\ f_ret = << 165, 255, 0 >>

(* Byte i of a byte string, a missing byte counting as 0. *)
ByteOrZero(b, i) == IF i <= Len(b) THEN b[i] ELSE 0

(***************************************************************************)
(* C13: xor_bytes(a, b) has length max(len(a), len(b)); its byte i is      *)
(* a[i] XOR b[i], a missing byte of the shorter operand counting as 0; and *)
(* xor_bytes(b, a) is the same byte string.                                *)
(***************************************************************************)
C13_XorLeftAlignedZeroPadded ==
    f_pc \in {"applied", "swapped"} =>
        /\ Len(f_ret) = Max(Len(f_args[1]), Len(f_args[2]))
        /\ \A i \in 1..Len(f_ret) :
              f_ret[i] = BitXor(ByteOrZero(f_args[1], i), ByteOrZero(f_args[2], i), 8)

(* The operands swapped, the first one shorter: 3 bytes, the last b[3]. *)
C13_Witness ==
    /\ f_pc = "swapped"
    /\ f_args = << << 165 >>, << 255, 165, 255 >> >>
    /\ f_ret = << 90, 165, 255 >>

(***************************************************************************)
(* encrypt_mac_key as a function of the session key and the access code.   *)
(***************************************************************************)
MaxCodeLen == 33
CodeSeeds  == {48, 200}

MacInit ==
    /\ CipherIdle
    /\ HaloIdle
    /\ QueueIdle
    /\ PollIdle
    /\ f_args \in SessionKeys \X { Payload(n, s) : n \in 0..MaxCodeLen, s \in CodeSeeds }
    /\ f_pc = "start"
    /\ f_ret = None

(* encrypt_mac_key(session_key, access_code) *)
MacApply ==
    /\ f_pc = "start"
    /\ f_ret' = encrypt_mac_key(f_args[1], f_args[2])
    /\ f_pc' = "applied"
    /\ UNCHANGED << f_args, cvars, hvars, qvars, pvars >>

MacNext == MacApply

SpecMac == MacInit /\ [][MacNext]_vars

(***************************************************************************)
(* C14: for every 16-byte session key and every access code of any length, *)
(* codes longer than 16 bytes included, encrypt_mac_key returns exactly    *)
(* one 16-byte block: the encryption of the first 16 bytes of the XOR of   *)
(* key and code.                                                           *)
(***************************************************************************)
C14_MacKeyIsOneBlock ==
    f_pc = "applied" =>
        /\ f_ret.ok
        /\ Len(f_ret.val) = 16
        /\ f_ret = cipher_encrypt(Take(xor_bytes(f_args[1], f_args[2]), 16))

(***************************************************************************)
(* The two cipher transforms applied, each on its own, to a payload of any *)
(* length.                                                                 *)
(***************************************************************************)
LengthsInit ==
    /\ CipherIdle
    /\ HaloIdle
    /\ QueueIdle
    /\ PollIdle
    /\ f_args \in { Payload(n, s) : n \in 0..MaxPayloadLen, s \in PayloadSeeds }
                     \X SessionKeys
    /\ f_pc = "start"
    /\ f_ret = None

(* encrypt_characteristic(data, session_key) *)
LengthsEncrypt ==
    /\ f_pc = "start"
    /\ f_ret' = encrypt_characteristic(f_args[1], f_args[2])
    /\ f_pc' = "encrypt"
    /\ UNCHANGED << f_args, cvars, hvars, qvars, pvars >>

(* decrypt_characteristic(data, session_key) *)
LengthsDecrypt ==
    /\ f_pc = "start"
    /\ f_ret' = decrypt_characteristic(f_args[1], f_args[2])
    /\ f_pc' = "decrypt"
    /\ UNCHANGED << f_args, cvars, hvars, qvars, pvars >>

LengthsNext == LengthsEncrypt \/ LengthsDecrypt

SpecCipherLengths == LengthsInit /\ [][LengthsNext]_vars

(* Bytes [0:16] or bytes [4:] of the payload are not whole 16-byte blocks. *)
PartialBlocks(data) ==
    \/ (Len(Slice(data, 0, 16)) % 16) # 0
    \/ (Len(Drop(data, 4)) % 16) # 0

(***************************************************************************)
(* C15: encrypt_characteristic and decrypt_characteristic, called with a   *)
(* payload whose cipher ranges, bytes [0:16] and bytes [4:], are not whole *)
(* 16-byte blocks, raise ValueError; they return no buffer.                *)
(***************************************************************************)
C15_PartialBlocksRaise ==
    (f_pc \in {"encrypt", "decrypt"} /\ PartialBlocks(f_args[1])) =>
        f_ret = Raise("ValueError")

(* A 21-byte ciphertext: bytes [4:] are one block and one byte. *)
C15_Witness ==
    /\ f_pc = "decrypt"
    /\ Len(f_args[1]) = 21
    /\ f_ret = Raise("ValueError")

(***************************************************************************)
(* PumpTimer.is_invalid, applied to a timer decoded from its four wire     *)
(* bytes and to a timer whose attributes were assigned.                    *)
(***************************************************************************)
TimerStartBytes ==
    { hour + enabled + speed : hour \in {0, 8, 23, 24, 25, 31}, enabled \in {0, 32},
                               speed \in {0, 192} }

TimerWire ==
    [kind : {"wire"},
     fields : TimerStartBytes \X {0, 30, 255} \X {0, 9, 24, 26, 255} \X {0, 1, 59}]

TimerAttributes ==
    [kind : {"attributes"}, enabled : BOOLEAN, start : {0, 480, 1440, 1441, 1500},
     stop : {0, 540, 1440, 1441}, speed_level : SpeedLevels]

TimerInit ==
    /\ CipherIdle
    /\ HaloIdle
    /\ QueueIdle
    /\ PollIdle
    /\ f_args \in TimerWire \cup TimerAttributes
    /\ f_pc = "start"
    /\ f_ret = None

(* ChlorinatorTimers.__init__, lines 396-408: one timer from its fields. *)
TimerDecode ==
    /\ f_pc = "start"
    /\ f_args.kind = "wire"
    /\ f_ret' = [timer |-> PumpTimer(f_args.fields), invalid |-> None]
    /\ f_pc' = "built"
    /\ UNCHANGED << f_args, cvars, hvars, qvars, pvars >>

(* timer = PumpTimer(), then its attributes assigned. *)
TimerAssign ==
    /\ f_pc = "start"
    /\ f_args.kind = "attributes"
    /\ f_ret' = [timer |-> PumpTimerWith(f_args.enabled, f_args.start, f_args.stop,
                                         f_args.speed_level),
                 invalid |-> None]
    /\ f_pc' = "built"
    /\ UNCHANGED << f_args, cvars, hvars, qvars, pvars >>

(* timer.is_invalid() *)
TimerIsInvalid ==
    /\ f_pc = "built"
    /\ f_ret' = [f_ret EXCEPT !.invalid = is_invalid(f_ret.timer)]
    /\ f_pc' = "checked"
    /\ UNCHANGED << f_args, cvars, hvars, qvars, pvars >>

TimerNext == TimerDecode \/ TimerAssign \/ TimerIsInvalid

SpecTimer == TimerInit /\ [][TimerNext]_vars

(* The timer was decoded from wire bytes whose start hour is 24 or more. *)
StartHourBeyondDay ==
    /\ f_pc = "checked"
    /\ f_args.kind = "wire"
    /\ BitAnd(31, f_args.fields[1]) >= 24

(***************************************************************************)
(* C16 as stated: a pump timer whose encoded start hour is 24 or more is   *)
(* invalid for every value of its enabled flag, stop time and speed level. *)
(***************************************************************************)
C16_LateStartAlwaysInvalid == StartHourBeyondDay => f_ret.invalid = TRUE

(***************************************************************************)
(* C16 amended: a pump timer whose encoded start hour is 24 or more is     *)
(* invalid, for every stop time and speed level, exactly when it is        *)
(* enabled; a disabled one is not invalid.                                 *)
(***************************************************************************)
C16_LateStartInvalidWhenEnabled ==
    StartHourBeyondDay => (f_ret.invalid = (BitAnd(32, f_args.fields[1]) # 0))

(* Enabled, 25:00 to 26:01: the only failing test is the one against 24h. *)
C16_Witness ==
    /\ f_pc = "checked"
    /\ f_args.kind = "wire"
    /\ f_args.fields = << 25 + 32, 0, 26, 1 >>
    /\ f_ret.invalid = TRUE

(* The length of a timer's start or stop time in seconds. *)
Seconds(time) == 86400 * time.value[1] + time.value[2]

(***************************************************************************)
(* C17: PumpTimer.is_invalid is false for every disabled timer; for an     *)
(* enabled timer it is true exactly when the start or the stop time        *)
(* exceeds 24 hours, or start >= stop, or the speed level is NotSet.       *)
(***************************************************************************)
C17_InvalidExactlyWhen ==
    f_pc = "checked" =>
        LET t == f_ret.timer
        IN  IF t.enabled = PyBool(FALSE)
            THEN f_ret.invalid = FALSE
            ELSE f_ret.invalid =
                    (\/ Seconds(t.start_time) > 24 * 3600
                     \/ Seconds(t.stop_time) > 24 * 3600
                     \/ Seconds(t.start_time) >= Seconds(t.stop_time)
                     \/ t.speed_level.value = -1)

(* Enabled, 08:00 to 09:00, speed level never set: invalid for that alone. *)
C17_Witness ==
    /\ f_pc = "checked"
    /\ f_args = [kind |-> "attributes", enabled |-> TRUE, start |-> 480,
                 stop |-> 540, speed_level |-> -1]
    /\ f_ret.invalid = TRUE

(***************************************************************************)
(* The record decoders as functions of a buffer: the six parsers of the    *)
(* poll variant and the classes of the codec registry of                   *)
(* halochlorinator.py.                                                     *)
(***************************************************************************)
PollParsers     == { parsers[i].parser : i \in 1..Len(parsers) }
RegistryClasses == { characteristics[tag] : tag \in DOMAIN characteristics }
DecodedClasses  ==
    {"TempCharacteristic", "ProbeCharacteristic", "LightStateCharacteristic",
     "GPOSetupCharacteristic"}

(* The struct format of each parser of the poll variant, "@": native. *)
parser_fmt(parser) ==
    CASE parser = "ChlorinatorState"        -> ChlorinatorState_fmt
      [] parser = "ChlorinatorSetup"        -> ChlorinatorSetup_fmt
      [] parser = "ChlorinatorCapabilities" -> ChlorinatorCapabilities_fmt
      [] parser = "ChlorinatorTimers"       -> ChlorinatorTimers_fmt
      [] parser = "ChlorinatorStatistics"   -> ChlorinatorStatistics_fmt
      [] parser = "ChlorinatorSettings"     -> ChlorinatorSettings_fmt

(* The number of bytes a decoder needs: struct.calcsize of its format, for *)
(* the timers once per pump timer.                                         *)
layout_size(class) ==
    IF class = "ChlorinatorTimers"
    THEN NUMBER_OF_PUMP_TIMERS_SUPPORTED * calcsize_native(ChlorinatorTimers_fmt)
    ELSE IF class \in PollParsers THEN calcsize_native(parser_fmt(class))
    ELSE calcsize(layout(class))

(* class(data): the constructor of a parser of the poll variant or of a    *)
(* class of the registry.  Ten decoders yield vars(record); of the other   *)
(* registry classes the outcome of the constructor is modelled, with the   *)
(* tuple of unpacked fields, from which every attribute is computed,       *)
(* standing for the record.                                                *)
record_class(class, data) ==
    CASE class \in PollParsers -> parser_call(class, data)
      [] class = "GPOSetupCharacteristic" -> GPOSetupCharacteristic(data)
      [] class \in DecodedClasses -> characteristic_class(class, data)
      [] OTHER ->
             Bind(record_fields(class, data), LAMBDA fields :
                  IF fields.ok /\ ~enum_conversions(class, fields.val)
                  THEN Raise("ValueError")
                  ELSE fields)

(* Outlet 1 of a Connect1: enabled, an equipment outlet named              *)
(* CleaningPump, no lighting zone, on timers.                              *)
GPOSetupBase == << 7, 1, 1, 0, 2, 0, 1 >>

(* A well-formed buffer of each decoder that is modelled in full. *)
DecodeBase(class) ==
    CASE class = "TempCharacteristic"  -> cmd_data(PacketTempA)
      [] class = "ProbeCharacteristic" -> cmd_data(PacketProbe)
      [] class = "LightStateCharacteristic" -> cmd_data(PacketLight)
      [] class = "GPOSetupCharacteristic" -> GPOSetupBase
      [] class \in PollParsers ->
             PollPlain[CHOOSE i \in 1..Len(parsers) : parsers[i].parser = class][1]

OverrideBytes == {3, 4, 9, 255}

(* The most significant byte of a four-byte field ("I" at offsets 8 and 12 *)
(* of the statistics, every "I" of a registry layout): it keeps its small  *)
(* value, so that every field stays below 2^31.                            *)
WideFieldTop(class, i) ==
    \/ class = "ChlorinatorStatistics" /\ i \in {12, 16}
    \/ /\ class \in RegistryClasses
       /\ \E k \in 1..Len(layout(class)) :
             /\ layout(class)[k] = "I"
             /\ calcsize(SubSeq(layout(class), 1, k)) = i
BufferSeeds   == {0, 101}

(* Bytes below 128, so that every four-byte field stays below 2^31. *)
LowPayload(len, seed) == [i \in 1..len |-> (seed + 7 * i) % 128]

(* Bytes 0, 1, 0, 1, ...: every code is a value of its enumeration. *)
AcceptedPayload(len) == [i \in 1..len |-> (i + 1) % 2]

(* Buffers of exactly the length of the layout: the well-formed buffer and *)
(* the buffer with one byte replaced; for the other registry classes a     *)
(* buffer their constructor accepts, that buffer with one byte replaced,   *)
(* and two arbitrary buffers.                                              *)
LayoutBuffers(class) ==
    IF class \in PollParsers \cup DecodedClasses
    THEN Bind(Take(DecodeBase(class), layout_size(class)), LAMBDA base :
              {base} \cup { [base EXCEPT ![i] = v] :
                              i \in { j \in 1..Len(base) : ~WideFieldTop(class, j) },
                              v \in OverrideBytes })
    ELSE Bind(AcceptedPayload(layout_size(class)), LAMBDA base :
              {base} \cup { [base EXCEPT ![i] = v] :
                              i \in { j \in 1..Len(base) : ~WideFieldTop(class, j) },
                              v \in OverrideBytes }
                     \cup { LowPayload(Len(base), s) : s \in BufferSeeds })

(* The buffers decoded: every prefix of a well-formed buffer and the       *)
(* buffer with one byte replaced; for the registry classes that are not    *)
(* modelled attribute by attribute, every buffer shorter than the layout   *)
(* and the buffers of the length of the layout.                            *)
DecodeInputs ==
    UNION { { [class |-> c, data |-> Take(DecodeBase(c), n)] :
                 n \in 0..Len(DecodeBase(c)) }
            \cup { [class |-> c, data |-> [DecodeBase(c) EXCEPT ![i] = v]] :
                      i \in { j \in 1..Len(DecodeBase(c)) : ~WideFieldTop(c, j) },
                      v \in OverrideBytes } :
            c \in PollParsers \cup DecodedClasses }
    \cup UNION { { [class |-> c, data |-> Payload(n, s)] :
                      n \in 0..(layout_size(c) - 1), s \in BufferSeeds }
                 \cup { [class |-> c, data |-> data] : data \in LayoutBuffers(c) } :
                 c \in RegistryClasses \ DecodedClasses }

DecodeInit ==
    /\ CipherIdle
    /\ HaloIdle
    /\ QueueIdle
    /\ PollIdle
    /\ f_args \in DecodeInputs
    /\ f_pc = "start"
    /\ f_ret = None

(* self._result.update(vars(class(data))) on an empty snapshot: the record *)
(* or the exception, and the snapshot afterwards.                          *)
DecodeRecord ==
    /\ f_pc = "start"
    /\ f_ret' = Bind(record_class(f_args.class, f_args.data), LAMBDA record :
                    [record |-> record,
                     result |-> IF record.ok THEN update(<< >>, record.val)
                                ELSE << >>])
    /\ f_pc' = "decoded"
    /\ UNCHANGED << f_args, cvars, hvars, qvars, pvars >>

DecodeNext == DecodeRecord

SpecDecode == DecodeInit /\ [][DecodeNext]_vars

(* A state record with flag byte 0x21 has been decoded. *)
StateRecordWithFlags21 ==
    /\ f_pc = "decoded"
    /\ f_args.class = "ChlorinatorState"
    /\ Len(f_args.data) >= layout_size("ChlorinatorState")
    /\ f_args.data[6] = 33
    /\ f_ret.record.ok

(* The names of the flag-derived booleans of the record that are true. *)
TrueFlagFields ==
    { name \in {"chemistry_values_current", "chemistry_values_valid", "spa_selection",
                "pump_is_priming", "pump_is_operating", "cell_is_operating",
                "user_settings_has_changed", "sanitising_until_next_timer_tomorrow"} :
         f_ret.record.val[name] = PyBool(TRUE) }

(***************************************************************************)
(* C18 as stated: decoding a state record whose flag byte is 0x21 sets     *)
(* exactly pump_is_priming and chemistry_values_current to true and the    *)
(* six other flag-derived booleans to false.                               *)
(***************************************************************************)
C18_Flags21PrimingAndCurrent ==
    StateRecordWithFlags21 =>
        TrueFlagFields = {"pump_is_priming", "chemistry_values_current"}

(***************************************************************************)
(* C18 amended: decoding a state record whose flag byte is 0x21 sets       *)
(* exactly cell_is_operating and chemistry_values_current to true and the  *)
(* six other flag-derived booleans, pump_is_priming among them, to false;  *)
(* the booleans are merged into the snapshot with these values.            *)
(***************************************************************************)
C18_Flags21CellAndCurrent ==
    StateRecordWithFlags21 =>
        /\ TrueFlagFields = {"cell_is_operating", "chemistry_values_current"}
        /\ f_ret.record.val["pump_is_priming"] = PyBool(FALSE)
        /\ f_ret.result = f_ret.record.val

C18_Witness ==
    /\ StateRecordWithFlags21
    /\ f_args.data = PollPlain[1][1]
    /\ f_ret.result["cell_is_operating"] = PyBool(TRUE)
    /\ f_ret.result["flags"] = PyInt(33)

(***************************************************************************)
(* C19: for every decoder whose layout needs at least 4 bytes, decoding a  *)
(* buffer shorter than the layout, one of 3 bytes in particular, raises    *)
(* struct.error: no record is produced and nothing is merged into the      *)
(* snapshot.                                                               *)
(***************************************************************************)
C19_ShortBufferRaises ==
    (/\ f_pc = "decoded"
     /\ layout_size(f_args.class) >= 4
     /\ Len(f_args.data) < layout_size(f_args.class)) =>
        /\ f_ret.record = Raise("struct.error")
        /\ DOMAIN f_ret.result = {}

(* Three bytes handed to the timers decoder. *)
C19_Witness ==
    /\ f_pc = "decoded"
    /\ f_args.class = "ChlorinatorTimers"
    /\ Len(f_args.data) = 3
    /\ f_ret.record = Raise("struct.error")

(* The enumerated fields of a decoder, the fields for which the source     *)
(* defines an enumeration: << first byte (counted from 1), number of       *)
(* bytes, codes of the enumeration >>.  The registry layouts have no       *)
(* padding, the fields of the poll parsers listed are single bytes.        *)
EnumeratedFields(class) ==
    CASE class = "ChlorinatorState" ->
             { << 1, 1, Modes >>, << 2, 1, SpeedLevels >>, << 4, 1, InfoMessages >>,
               << 8, 1, ChlorineControlStatuses >> }
      [] class = "ChlorinatorSetup" -> { << 1, 1, SpeedLevels >> }
      [] class = "ChlorinatorCapabilities" ->
             { << 9, 1, PhControlTypes >>, << 10, 1, ChlorineControlTypes >> }
      [] class = "ChlorinatorSettings" -> { << 3, 1, AcidDosingInhibitStatuses >> }
      [] class = "TempCharacteristic" -> { << 11, 1, TempValidEnum >> }
      [] class = "LightStateCharacteristic" ->
             { << zone, 1, Mode >> : zone \in 1..4 }
      [] class = "DeviceProfileCharacteristic2" ->
             { << 1, 1, {-1, 0, 1, 2, 3, 4, 129} >>,    \* DeviceType
               << 3, 1, (-1)..2 >> }                    \* DeviceProtocol
      [] class = "SettingsCharacteristic2" ->
             { << 3, 1, 0..3 >> }                       \* CellModelValues
      [] class = "StateCharacteristic3" ->
             { << 5, 1, (-1)..19 >>,                    \* MainTextValues
               << 6, 1, 0..12 >>,                       \* SubText1Values
               << 9, 1, 0..12 >>,                       \* SubText2Values
               << 11, 1, 0..8 >>,                       \* SubText3Values
               << 14, 2, SubText4Values >> }
      [] class = "WaterVolumeCharacteristic" ->
             { << 1, 1, {0, 1, 2} >> }                  \* VolumeUnitsValues
      [] class = "CapabilitiesCharacteristic2" ->
             { << 1, 1, {0, 1, 2} >>,                   \* PhControlTypes
               << 2, 1, {0, 1, 2} >> }                  \* ChlorineControlTypes
      [] class = "MaintenanceStateCharacteristic" ->
             { << 4, 1, (-1)..10 >>,                    \* TaskStatesValues
               << 5, 1, 0..5 >>,                        \* TaskReturnCodesValues
               << 12, 1, 0..14 >>,                      \* CalibrateStatesValues
               << 13, 1, Mode >> }
      [] class = "EquipmentModeCharacteristic" ->
             { << 2, 1, Mode >> } \cup { << gpo, 1, GPOMode >> : gpo \in 3..12 }
      [] class = "EquipmentParameterCharacteristic" ->
             { << 1, 1, (-1)..3 >> }                    \* SpeedLevels
      [] class = "LightSetupCharacteristic" ->
             { << zone, 1, 0..7 >> : zone \in 1..4 }    \* ZoneNamesValues
      [] class = "HeaterConfigCharacteristic" ->
             { << 2, 1, (-1)..3 >> }                    \* SpeedLevels
      [] class = "HeaterStateCharacteristic" ->
             { << 2, 1, Mode >>,
               << 3, 1, {0, 1} >>,                      \* HeaterModeValues
               << 5, 1, {0, 1, 2} >>,                   \* HeatpumpModeValues
               << 6, 1, {0, 1, 2} >>,                   \* HeaterForcedEnum
               << 9, 1, {0, 1, 2} >> }                  \* TempValidEnum
      [] class = "SolarStateCharacteristic" ->
             { << 8, 1, Mode >>,
               << 10, 1, {0, 1, 2} >>,                  \* TempValidEnum
               << 11, 1, {0, 1, 2} >>,                  \* TempValidEnum
               << 14, 1, 0..6 >> }                      \* SolarMessageValues
      [] class = "GPOSetupCharacteristic" ->
             { << 1, 1, GPODeviceTypeValues >>, << 4, 1, GPOFunctionValues >>,
               << 5, 1, GPONameValues >> }
      [] class = "RelaySetupCharacteristic" ->
             { << 3, 1, {0, 1} >> }                     \* RelayNameValue
      [] class = "ValveSetupCharacteristic" ->
             { << 3, 1, 0..5 >> }                       \* ValveNameValue
      [] OTHER -> {}

(* The code an enumerated field carries in a buffer. *)
FieldCode(data, field) ==
    from_bytes_little(SubSeq(data, field[1], field[1] + field[2] - 1))

(* A full-length buffer in which an enumerated field has an unknown code. *)
UnknownEnumCode ==
    /\ f_pc = "decoded"
    /\ Len(f_args.data) >= layout_size(f_args.class)
    /\ \E field \in EnumeratedFields(f_args.class) :
          FieldCode(f_args.data, field) \notin field[3]

(***************************************************************************)
(* C20 as stated: for every record decoder, decoding a full-length record  *)
(* in which an enumerated field carries a code outside its enumeration     *)
(* raises ValueError, which is not the struct.error of a short buffer; no  *)
(* record with a default or sentinel value for that field is produced, and *)
(* nothing is merged.                                                      *)
(***************************************************************************)
C20_UnknownEnumRaises ==
    UnknownEnumCode =>
        /\ f_ret.record = Raise("ValueError")
        /\ f_ret.record # Raise("struct.error")
        /\ DOMAIN f_ret.result = {}

(***************************************************************************)
(* The decoders on two buffers that agree on the bytes of the layout and   *)
(* differ in what follows them.                                            *)
(***************************************************************************)
(* What may follow the bytes of the layout. *)
TrailingBytes == { << >>, << 0 >>, << 255, 1 >>, << 7, 7, 7, 200 >> }

TrailingInputs ==
    UNION { { [class |-> c, data |-> head \o t1, other |-> head \o t2] :
                 head \in LayoutBuffers(c),
                 t1 \in TrailingBytes, t2 \in TrailingBytes } :
            c \in PollParsers \cup RegistryClasses }

TrailingInit ==
    /\ CipherIdle
    /\ HaloIdle
    /\ QueueIdle
    /\ PollIdle
    /\ f_args \in TrailingInputs
    /\ f_pc = "start"
    /\ f_ret = None

(* Both buffers are decoded. *)
TrailingDecode ==
    /\ f_pc = "start"
    /\ f_ret' = [first  |-> record_class(f_args.class, f_args.data),
                 second |-> record_class(f_args.class, f_args.other)]
    /\ f_pc' = "decoded"
    /\ UNCHANGED << f_args, cvars, hvars, qvars, pvars >>

TrailingNext == TrailingDecode

SpecTrailing == TrailingInit /\ [][TrailingNext]_vars

(* Two buffers that agree on the bytes of the layout have been decoded. *)
SameLayoutBytes ==
    /\ f_pc = "decoded"
    /\ Len(f_args.data) >= layout_size(f_args.class)
    /\ Len(f_args.other) >= layout_size(f_args.class)
    /\ Take(f_args.data, layout_size(f_args.class))
         = Take(f_args.other, layout_size(f_args.class))

(***************************************************************************)
(* C21: every record decoder reads only the first N bytes of its input, N  *)
(* the length of the layout of the record type: two buffers that agree on  *)
(* their first N bytes and differ only in trailing bytes decode to records *)
(* with identical fields, or raise the same exception.                     *)
(***************************************************************************)
C21_TrailingBytesIgnored ==
    SameLayoutBytes =>
        /\ f_ret.first.ok = f_ret.second.ok
        /\ f_ret.first.err = f_ret.second.err
        /\ f_ret.first.ok => f_ret.first.val = f_ret.second.val

(* A timers record decoded from 16 bytes and from the same 16 bytes        *)
(* followed by four more.                                                  *)
C21_Witness ==
    /\ SameLayoutBytes
    /\ f_args.class = "ChlorinatorTimers"
    /\ Len(f_args.data) = 16
    /\ Len(f_args.other) = 20
    /\ f_ret.first.ok
    /\ f_ret.second.val = f_ret.first.val

(***************************************************************************)
(* The action encoders of the two device families as functions of the      *)
(* action tag and its parameter.                                           *)
(***************************************************************************)
(* ChlorinatorActions of chlorinator_parsers.py and of halo_parsers.py. *)
PollActions == 0..13
HaloActions == 0..21

PeriodValues == {0, 1, 300, 65536, 2147483647, -1, -256, -2147483647}
HeaderValues == { << 3, 244, 1 >>, << 1 >>, << 1, 2, 3, 4 >> }

ActionInputs ==
    { [family |-> "poll", action |-> a, period_minutes |-> p, header_bytes |-> << >>] :
         a \in PollActions, p \in PeriodValues }
    \cup { [family |-> "halo", action |-> a, period_minutes |-> p, header_bytes |-> h] :
              a \in HaloActions, p \in PeriodValues, h \in HeaderValues }

ActionInit ==
    /\ CipherIdle
    /\ HaloIdle
    /\ QueueIdle
    /\ PollIdle
    /\ f_args \in ActionInputs
    /\ f_pc = "start"
    /\ f_ret = None

(* ChlorinatorAction(...).__bytes__() of the family. *)
ActionEncode ==
    /\ f_pc = "start"
    /\ f_ret' = IF f_args.family = "poll"
                THEN ChlorinatorAction_bytes(f_args.action, f_args.period_minutes)
                ELSE HaloChlorinatorAction_pack(f_args.header_bytes, f_args.action,
                                                f_args.period_minutes)
    /\ f_pc' = "encoded"
    /\ UNCHANGED << f_args, cvars, hvars, qvars, pvars >>

(* encrypt_characteristic on the packet cut to 16 bytes, and on the packet. *)
ActionEncrypt ==
    /\ f_pc = "encoded"
    /\ f_ret' = [packet |-> f_ret,
                 short  |-> encrypt_characteristic(Take(f_ret, 16), SessionKeyA).ok,
                 whole  |-> encrypt_characteristic(f_ret, SessionKeyA).ok]
    /\ f_pc' = "encrypted"
    /\ UNCHANGED << f_args, cvars, hvars, qvars, pvars >>

ActionNext == ActionEncode \/ ActionEncrypt

SpecAction == ActionInit /\ [][ActionNext]_vars

(* The parameter, low byte first, in two's complement, from byte `first`   *)
(* (counted from 0), and zeros after it.                                   *)
ParameterThenZeros(packet, first, period_minutes) ==
    /\ \A k \in 0..3 : packet[first + 1 + k] = (period_minutes \div (256 ^ k)) % 256
    /\ \A i \in (first + 5)..Len(packet) : packet[i] = 0

(***************************************************************************)
(* C22 as stated: the action encoder emits 20 bytes for the poll family    *)
(* (tag at byte 0, 4-byte little-endian signed parameter at bytes 1..4,    *)
(* zeros after) and 16 bytes for the notification family (3-byte header,   *)
(* tag at byte 3, parameter at bytes 4..7, zeros after).                   *)
(***************************************************************************)
C22_PacketLengths20And16 ==
    f_pc = "encoded" =>
        IF f_args.family = "poll"
        THEN /\ Len(f_ret) = 20
             /\ f_ret[1] = f_args.action
             /\ ParameterThenZeros(f_ret, 1, f_args.period_minutes)
        ELSE /\ Len(f_ret) = 16
             /\ f_ret[4] = f_args.action
             /\ ParameterThenZeros(f_ret, 4, f_args.period_minutes)

(***************************************************************************)
(* C22 amended: the action encoder emits 20 bytes for both families: for   *)
(* the poll family the tag at byte 0, the 4-byte little-endian signed      *)
(* parameter at bytes 1..4 and 15 zeros; for the notification family the   *)
(* 3-byte header, the tag at byte 3, the parameter at bytes 4..7 and 12    *)
(* zeros.  A packet of 20 bytes is one the payload cipher accepts; its     *)
(* first 16 bytes alone are not.                                           *)
(***************************************************************************)
C22_PacketLengths20And20 ==
    /\ f_pc = "encoded" =>
          /\ Len(f_ret) = 20
          /\ IF f_args.family = "poll"
             THEN /\ f_ret[1] = f_args.action
                  /\ ParameterThenZeros(f_ret, 1, f_args.period_minutes)
             ELSE /\ Take(f_ret, 3) = Take(pad_byte_array(f_args.header_bytes, 3), 3)
                  /\ f_ret[4] = f_args.action
                  /\ ParameterThenZeros(f_ret, 4, f_args.period_minutes)
    /\ f_pc = "encrypted" => f_ret.whole /\ ~f_ret.short

(* DisableAcidDosingForPeriod for 300 minutes, notification family. *)
C22_Witness ==
    /\ f_pc = "encoded"
    /\ f_args.family = "halo"
    /\ f_args.action = 11
    /\ f_args.period_minutes = 300
    /\ f_ret = << 3, 244, 1, 11, 44, 1, 0, 0, 0, 0, 0, 0, 0, 0, 0, 0, 0, 0, 0, 0 >>

(* The producer of the queue variant has enqueued the sentinel and         *)
(* returned, and the consumer has taken every item up to and including     *)
(* the sentinel: halo_queue_consumer stops taking items once it has        *)
(* raised, so an empty queue means the sentinel was the last item taken.   *)
SentinelTaken(c) ==
    /\ h_call[c].kind = "gather_brokecopy"
    /\ h_call[c].pc = "returned"
    /\ q_queue = << >>

(***************************************************************************)
(* C23: in the queue variant, once the producer has enqueued the           *)
(* disconnect sentinel, the consumer processes every packet enqueued       *)
(* before it, then leaves its loop without raising, and the gather session *)
(* completes normally.                                                     *)
(***************************************************************************)
C23_SentinelEndsSessionNormally ==
    \A c \in Calls :
       SentinelTaken(c) =>
          /\ q_consumer.pc = "done"
          /\ q_consumer.err = ""
          /\ h_call[c].ret = ReturnsNone

(***************************************************************************)
(* The queue variant under the scheduling of the event loop: a callback    *)
(* task that is ready runs, and the consumer is resumed when the queue     *)
(* holds an item.                                                          *)
(***************************************************************************)
SpecQueueLive ==
    SpecNotify /\ WF_vars(RunCallback) /\ \A c \in Calls : WF_vars(ConsumerGet(c))

(* halo_ble_client of call c has ended with an exception: a transport      *)
(* operation raised before the sentinel was enqueued.                      *)
ProducerRaised(c) ==
    /\ h_call[c].kind = "gather_brokecopy"
    /\ h_call[c].pc = "raised"

(***************************************************************************)
(* C24: in the queue variant, if the producer ends because connect, a      *)
(* read, a write or the subscription raises before any sentinel was        *)
(* enqueued, the consumer is still unblocked and terminates: it does not   *)
(* remain blocked on queue.get() forever.                                  *)
(***************************************************************************)
C24_ConsumerUnblockedOnFailure ==
    \A c \in Calls : ProducerRaised(c) ~> (q_consumer.pc # "get")

(***************************************************************************)
(* ChlorinatorTimers on a buffer and on the same buffer with the four      *)
(* bytes of one timer replaced.                                            *)
(***************************************************************************)
TimersBases ==
    { PollPlain[TimersIndex][1],
      << 40, 15, 9, 45, 104, 0, 12, 30, 223, 59, 23, 59, 255, 255, 255, 255 >> }

TimerQuads ==
    { << b0, b1, b2, 30 >> : b0 \in {0, 40, 104, 223, 255}, b1 \in {0, 59},
                             b2 \in {0, 23} }

(* data with the bytes [4j, 4j + 4) replaced by quad. *)
WithTimerBytes(data, j, quad) ==
    [i \in 1..Len(data) |-> IF i \in (4 * j + 1)..(4 * j + 4) THEN quad[i - 4 * j]
                            ELSE data[i]]

TimersInputs ==
    { [data |-> data, changed |-> j, other |-> WithTimerBytes(data, j, quad)] :
         data \in TimersBases, j \in 0..3, quad \in TimerQuads }

TimersInit ==
    /\ CipherIdle
    /\ HaloIdle
    /\ QueueIdle
    /\ PollIdle
    /\ f_args \in TimersInputs
    /\ f_pc = "start"
    /\ f_ret = None

(* ChlorinatorTimers(data_bytes) on both buffers. *)
TimersDecode ==
    /\ f_pc = "start"
    /\ f_ret' = [first  |-> ChlorinatorTimers(f_args.data),
                 second |-> ChlorinatorTimers(f_args.other)]
    /\ f_pc' = "decoded"
    /\ UNCHANGED << f_args, cvars, hvars, qvars, pvars >>

TimersNext == TimersDecode

SpecTimerStride == TimersInit /\ [][TimersNext]_vars

(* Timer i (from 0) of a decoded record holds the hours, minutes, enabled  *)
(* bit and speed level of the bytes [4i, 4i + 4) of the buffer.            *)
TimerFromItsBytes(record, data, i) ==
    LET timer == record.val.pump_timers.value[i + 1]
        byte0 == data[4 * i + 1]
    IN  /\ Seconds(timer.start_time) = 3600 * (byte0 % 32) + 60 * data[4 * i + 2]
        /\ timer.enabled.value = (byte0 \div 32) % 2
        /\ timer.speed_level.value = byte0 \div 64
        /\ Seconds(timer.stop_time) = 3600 * data[4 * i + 3] + 60 * data[4 * i + 4]

(***************************************************************************)
(* C25: ChlorinatorTimers decodes exactly four pump timers with a stride   *)
(* of 4 bytes: timer i (0..3) has start hour = byte0 & 0x1F, enabled =     *)
(* (byte0 & 0x20) != 0, speed level = (byte0 & 0xC0) >> 6, start minute =  *)
(* byte1, stop hour = byte2 and stop minute = byte3 of the bytes           *)
(* [4i, 4i + 4), and replacing the bytes of one timer changes no other     *)
(* timer.                                                                  *)
(***************************************************************************)
C25_FourTimersFixedStride ==
    f_pc = "decoded" =>
        /\ f_ret.first.ok /\ f_ret.second.ok
        /\ Len(f_ret.first.val.pump_timers.value) = 4
        /\ Len(f_ret.second.val.pump_timers.value) = 4
        /\ \A i \in 0..3 :
              /\ TimerFromItsBytes(f_ret.first, f_args.data, i)
              /\ TimerFromItsBytes(f_ret.second, f_args.other, i)
              /\ i # f_args.changed =>
                    f_ret.second.val.pump_timers.value[i + 1]
                       = f_ret.first.val.pump_timers.value[i + 1]

(* The bytes of timer 1 replaced by an enabled 31:59 start at speed 3: the *)
(* second record differs in timer 1 and only there.                        *)
C25_Witness ==
    /\ f_pc = "decoded"
    /\ f_args.changed = 1
    /\ SubSeq(f_args.other, 5, 8) = << 255, 59, 23, 30 >>
    /\ f_ret.second.val.pump_timers.value[2].speed_level.value = 3
    /\ f_ret.second.val.pump_timers.value[2] # f_ret.first.val.pump_timers.value[2]
    /\ f_ret.second.val.pump_timers.value[1] = f_ret.first.val.pump_timers.value[1]

(* Call c is an async_gatherdata of halochlorinator.py between the         *)
(* assignment self._connected = True and its return or exception.          *)
GatherInSession(c) ==
    /\ h_call[c].kind = "gather"
    /\ h_call[c].pc \notin {"idle", "start", "done", "raised"}

(***************************************************************************)
(* C26: every async_gatherdata call that has set the connected guard       *)
(* clears it on every exit path, a failing connect, key read, token write, *)
(* subscription or request write included: the guard is set only while a   *)
(* gather call is in its session, so that a write call waiting on the      *)
(* guard proceeds once the session is over.                                *)
(***************************************************************************)
C26_GuardClearedOnEveryExit ==
    h_connected => \E c \in Calls : GatherInSession(c)

(***************************************************************************)
(* C27: in the notification variant a failed decode is atomic with respect *)
(* to the snapshot: when the construction of the record of a packet        *)
(* raises, in the callback of halochlorinator.py or in the consumer of the *)
(* queue variant, the snapshot after that packet equals the snapshot       *)
(* before it; no field of the failing record is merged.                    *)
(***************************************************************************)
C27_FailedDecodeKeepsSnapshot ==
    [][ \A c \in Calls :
          /\ ( /\ h_call[c].kind = "gather"
               /\ h_tasks # << >>
               /\ h_tasks' = Tail(h_tasks)
               /\ Head(h_tasks).call = c
               /\ FailsToDecode(RecordOf(c, Head(h_tasks).n)) )
             => h_result' = h_result
          /\ ( /\ h_call[c].kind = "gather_brokecopy"
               /\ q_queue # << >>
               /\ q_queue' = Tail(q_queue)
               /\ Len(Head(q_queue)) = 3
               /\ FailsToDecode(RecordOf(c, Head(q_queue)[2].n)) )
             => h_result' = h_result
      ]_vars

(* The temperature packet A and then the packet with the unknown valid     *)
(* code arrived and both callbacks have run: the snapshot is the record of *)
(* packet A.                                                               *)
C27_Witness ==
    /\ h_call[1].kind = "gather"
    /\ h_arrived = << 1, 4 >>
    /\ h_tasks = << >>
    /\ FailsToDecode(RecordOf(1, 4))
    /\ h_result = RecordOf(1, 1).val

(* The positions of the operations of a kind in the transport log. *)
PollOpsOf(kinds) == { i \in 1..Len(p_ops) : p_ops[i].op \in kinds }

(* The call has returned or raised after its connection was established. *)
PollCallEndedConnected ==
    /\ p_call.pc \in {"done", "raised"}
    /\ PollOpsOf({"connect"}) # {}

(***************************************************************************)
(* C28: in the poll variant every call of async_gatherdata or              *)
(* async_write_action that established a connection disconnects the        *)
(* client exactly once before it returns or raises, on every path          *)
(* (success, a transport failure at any step, a cipher failure, a decode   *)
(* failure), and issues no read or write after the disconnect.             *)
(***************************************************************************)
C28_DisconnectsExactlyOnce ==
    /\ Cardinality(PollOpsOf({"disconnect"})) <= 1
    /\ \A i \in PollOpsOf({"disconnect"}) :
          /\ i = Len(p_ops)
          /\ PollOpsOf({"connect"}) # {}
    /\ PollCallEndedConnected =>
          /\ Cardinality(PollOpsOf({"disconnect"})) = 1
          /\ p_client = "closed"

(* A gather call that raised the ValueError of a record that failed to     *)
(* decode, after reads and a write, with the disconnect as its last        *)
(* operation.                                                              *)
C28_Witness ==
    /\ PollCallEndedConnected
    /\ p_call.kind = "gatherdata"
    /\ p_call.ret = Raise("ValueError")
    /\ PollOpsOf({"read"}) # {}
    /\ PollOpsOf({"write"}) # {}
    /\ p_ops[Len(p_ops)].op = "disconnect"

(* A capabilities record has been decoded from a buffer of full length. *)
CapabilitiesDecoded ==
    /\ f_pc = "decoded"
    /\ f_args.class = "ChlorinatorCapabilities"
    /\ f_ret.record.ok

(* The code of VolumeUnitsTypes named by the volume-unit bits of           *)
(* CapabilitiesFlags: 0 Litres (0), 4 UsGallons (1), 8 ImperialGallons (2). *)
VolumeUnitsClaimed(bits) == bits \div 4

(***************************************************************************)
(* C29: for every value of the capabilities flag byte the decoded          *)
(* ChlorinatorCapabilities record defines volume_units, and its value is   *)
(* given by the two volume-unit bits (mask 0x0C): 0 Litres, 4 UsGallons,   *)
(* 8 ImperialGallons.                                                      *)
(***************************************************************************)
C29_VolumeUnitsAlwaysDefined ==
    CapabilitiesDecoded =>
        /\ "volume_units" \in DOMAIN f_ret.record.val
        /\ BitAnd(12, f_args.data[11]) \in {0, 4, 8} =>
              f_ret.record.val["volume_units"].value
                 = VolumeUnitsClaimed(BitAnd(12, f_args.data[11]))

(* A light-state record has been decoded from a buffer of full length. *)
LightStateDecoded ==
    /\ f_pc = "decoded"
    /\ f_args.class = "LightStateCharacteristic"
    /\ f_ret.record.ok

(* The field LightingState_n of the decoded record. *)
LightingStateField(n) ==
    f_ret.record.val[CASE n = 1 -> "LightingState_1" [] n = 2 -> "LightingState_2"
                       [] n = 3 -> "LightingState_3" [] n = 4 -> "LightingState_4"]

(***************************************************************************)
(* C30: for every zone-state flag byte the decoded field LightingState_n   *)
(* (n = 1..4) of LightStateCharacteristic is non-zero exactly when the     *)
(* on-bit of zone n (Zone1On = 1, Zone2On = 2, Zone3On = 4, Zone4On = 8)   *)
(* is set in the flag byte, whatever the bits of the other zones.          *)
(***************************************************************************)
C30_LightingStateIsZoneBit ==
    LightStateDecoded =>
        \A n \in 1..4 :
           (LightingStateField(n).value # 0)
              <=> (BitAnd(2 ^ (n - 1), f_args.data[9]) # 0)
=============================================================================
